# Verification of ircserv in TLA+

`ircserv` is a small IRC server in C++98: one process, one thread, one `poll()`
loop, no persistence. There are no data races to look for. What is hard here is
everything the code postpones: a client that is dropped is only *marked*, it
stays in its channels while the commands of other clients run, and it is deleted
at the end of the poll iteration. Any line sent to anybody can fill that
client's output queue and mark it, in the middle of a command that is still
using the same channel. The models are about that window.

Paths below are relative to the repository (`src/Server.cpp`, `docs/...`).

## 1. The system

| Component | Source | State | Operations |
|---|---|---|---|
| Client registry, deferred disconnect | `src/Server.cpp` | `_clients` (descriptor to `Client*`), `_disconnecting`, `_quitReason` | accept, `findClientByNick`, `disconnectClient` (mark, QUIT to peers, ERROR), `reapDisconnected` (flush, sweep, close, delete) |
| Poll loop | `src/Server.cpp` | `_pollFds`, `_running`, `g_shutdown` | rebuild the set, poll, serve descriptors in ascending order, reap |
| Registration, session commands | `src/CommandsRegistration.cpp`, `Client` flags | `_hasPass`, `_hasNick`, `_hasUser`, `_welcomeSent`, `_nickname` | PASS, NICK, USER, QUIT, PING, CAP |
| Channel | `src/Channel.cpp` | name, topic, sets of members, operators, invitees, modes i t k l | one mutator per field, decides nothing |
| Channel table | `src/ServerChannels.cpp` | `_channels`, keyed by folded name | find, create, remove, sweep |
| Channel commands | `src/CommandsChannel.cpp` | none of its own | JOIN, PART, KICK, PRIVMSG, TOPIC, INVITE, MODE |
| Delivery | `Server::sendToClient`, `broadcastTo*` | the output queues | truncate, queue, disconnect on overflow |
| Buffers | `src/Client.cpp` | `_readBuffer`, `_outputBuffer` | append, extract a line, queue, consume |
| Parser, utilities, replies | `src/Message.cpp`, `src/Utils.cpp`, `src/Replies.cpp` | none | pure functions |

How they interact: the loop reads one chunk from a descriptor and runs every
complete line in it through `handleLine`, which looks the command up, applies the
registration gate and calls a handler. Handlers read and write channels and send
lines. A send that is refused calls `disconnectClient` on its recipient, which
sends that client's QUIT to everyone it shares a channel with, which may refuse
in turn. Channels hold plain `Client*`; `sweepChannels` must remove them before
`reapDisconnected` deletes the object.

What makes each component correct:

- registry: no two live clients hold one nickname in any spelling; a mark is
  final; every marked client is deleted, and nothing refers to it afterwards;
- registration: no name without the password, one welcome, at the transition;
- channel and table: operators are members, invitees are not, members are
  registered, no empty channel stays, no two channels differ only in case, a new
  channel inherits nothing;
- commands: rank, membership and invitations move only by right, modes gate
  every entry;
- delivery, buffers: bounded queues, no line lost or duplicated or reordered for
  a client that reads, framing independent of how the stream was cut;
- pure functions: agree with the grammar they implement.

The list of hazards, each at its line and with the properties about it, is under
`hazards` in `PROJECT.json`.

## 2. Modules

| Module | Contents |
|---|---|
| `Channel` | a channel as a record, one operator per mutator, and the gates of a JOIN (`passesModeGates`) |
| `Delivery` | who is sent a QUIT, and whom a send may mark, as one step (`Peers`, `Overflows`) |
| `Server` | the registry, the poll loop at the grain of one command per step, every handler; invariants, action properties, liveness |
| `Claims` | what documents and comments promise and `Server` does not do |
| `NickRegistry`, `Room` | abstract specifications: nicknames as a registry, a channel as a room |
| `Refinement` | the mappings from `Server` to both |
| `Relay` | the inside of a send: `sendToClient`, the broadcasts and `disconnectClient` calling each other, with the call stack as state, and what each client gets to read |
| `OutputQueue` | the bytes of one client from `sendToClient` to the peer: framing, cap, partial sends, last flush |
| `ReadBuffer` | the bytes from one client to `handleLine`: fragments, cap, extraction, drain loop |
| `PollLoop` | `run()` against the kernel: poll set, revents, POLLOUT, FIN, RST, signals, descriptors reused |
| `ModeLine` | what MODE announces to the channel, and the answer to its query |
| `Text`, `TextInput` | the pure functions of `Message.cpp`, `Utils.cpp`, `Replies.cpp` and the splitting of the member list into 353 lines; every short string with a reference definition each |
| `MCServer`, `MCOutputQueue`, `MCModeLine`, `MCTextInput` | instances for TLC; the other runs give a module its constants directly |
| `*Proofs` | theorems and their proofs: `ServerProofs` (with the refinements), `RelayProofs`, `OutputProofs`, `ReadProofs`, `PollProofs`, `ModeLineProofs`, `TextProofs` |
| `Induction` | lemmas of induction and recursion over the natural numbers, on which the proofs about sequences of any length rest |

`Server` EXTENDS `Channel` and `Delivery`; `Claims` and `Refinement` EXTEND `Server`,
`ServerProofs` EXTENDS `Refinement`; `MCServer` EXTENDS `Claims` and `Refinement`. `Relay` EXTENDS `Delivery`: it checks that
its small steps end where `Overflows` says, which is what `Server` relies on.
`Refinement` INSTANCEs `NickRegistry` and `Room`. The other modules stand alone:
each models one component against its environment, and the component's
interface is the abstraction the neighbours use. `ReadBuffer` delivers what
`Server` calls a command, `OutputQueue` refuses what `Server` calls an overflow,
`PollLoop` serves what `Server` calls a turn.

### `Server`: state

| TLA+ | Code |
|---|---|
| `clients` | keys of `_clients`; a client is its descriptor, since each owns one `Client` object |
| `hasPass`, `hasUser`, `welcomed` | the flags, as sets of clients |
| `nick` | `_nickname`, with `NoNick` for a client that has none (`_hasNick` false) |
| `dying` | clients with `_disconnecting` |
| `channels` | `_channels`, a function from folded names to channel records |
| `turn` | the descriptor the loop is at; 0 is the listening socket, which is served first |
| `fresh` | the client accepted in this iteration, which is not in its poll set |
| `editing`, `applied` | the channel whose MODE string is being applied, and whether it changed something yet |

### `Server`: actions

One action per handler outcome that changes state: `Accept`, `Turn`, `Reap`,
`Disconnect` (QUIT, end of stream, error, hang-up, a line that never ends),
`Pass`, `PassMismatch`, `Nick`, `User`, `JoinExisting`, `JoinNew`, `Part`, `Kick`,
`PrivmsgChannel`, `PrivmsgUser`, `Topic`, `Invite`, and for MODE `ModeBegin`, one
action per flag, `ModeRefused`, `ModeEnd`. Everything that only sends a numeric to
its sender (PING, CAP, queries, all refusals) is `Reply`: its one effect is that
the sender's queue may overflow. A MODE string is several steps because its
privilege is checked once and its flags then run whatever happens to the sender;
no other action is enabled until `ModeEnd`, as in the code.

### `Server`: abstractions

- *Overflow.* Queue lengths are not kept: any send to a client of `Slow` may
  overflow. `Overflows(R, chans, marked)` is the set of possible results: each
  marked client is a recipient or a peer, through QUITs, of another one. This
  admits everything the code can do with queues of any length, and more;
  `MatchesOverflows` checks it against the small steps of `Relay`.
- *Lines per turn.* A turn runs any number of commands; the code runs the complete
  lines of one read and what the buffer held.
- *Lists.* JOIN and PART lists are runs of single commands: the loop over a list
  makes the test the loop over lines makes.
- *Address order.* `std::set<Client *>` iterates by address, so
  `findMemberByNick` is any member of that name.
- *Data.* Names, topics and keys are model values; `Lower` is the case folding,
  any function from spellings to folded names. Only valid names are offered.
- *Descriptors.* `accept` returns the lowest free one; those of a client dropped in
  this iteration are still open.

### The other modules

- *`Relay`.* `stack` is the call stack. A frame is a loop that still has to send one
  line to a set of clients; `disconnectClient` pushes two, QUIT to the peers above
  ERROR to the client. `Deliver`, `Skip` (the early return), `Refuse` (the mark and
  the two frames) and `Return` are the steps of a send; `Talk`, `Join`, `Leave`
  start one, `Writable` empties a queue, `Reap` deletes. A set is iterated by
  address, so any recipient may be next. Sizes are abstract: an ERROR is shorter than
  a QUIT, so that a refused QUIT and an accepted ERROR happen. All clients are
  registered; NICK is like `Talk` to other recipients and is left out.
- *`OutputQueue`.* A byte is a line number and a kind (payload, CR, LF). The kernel takes
  any part of what is offered that fits its buffer; the peer reads when it likes or
  resets. Line 0 is the ERROR.
- *`ReadBuffer`.* Bytes are the five that framing tells apart. `Recv` appends any chunk,
  `HandleLine` is one turn of the drain loop, in which the line may mark its client.
- *`PollLoop`.* `revents` is what is left to serve of the set poll() filled;
  `clients`, `cause`, `pending` are the table, the reason of the mark and
  `hasPendingOutput`; `in`, `room`, `end` are the kernel's side of each socket. What
  commands do is any set of marks and of new output; a client that is dropped marks
  any others whose queues its QUIT fills. `late` remembers whether the signal came
  between the test of `g_shutdown` and `poll()`; no action reads it. A descriptor returns to the
  kernel when its client is reaped and may be given to the next connection. On
  Linux a RST leaves received bytes readable and reports POLLHUP at the same time.
  `EMFILE` is a connection that waits while no descriptor is free.
- *`ModeLine`.* A MODE string is executed flag by flag, as in `applyModeChanges`, and
  `ModeAccumulator` writes the announcement. A parameter is a text, which may be
  empty, one word (`Plain`), or anything else a trailing parameter can be. A line on its way to
  a client is its flags and its texts: `Cut` is the cut of `sendToClient` (`Rooms`
  is what prefix, command and channel leave of 510 bytes), and `WordsOf` what the parser
  makes of texts that are put behind a space each. `view` is what a client that knew the
  modes before the command reads from its announcement; `whole` remembers whether
  every text of it was one word and it was not cut, and no action reads it. The texts, their
  sizes and the parser are constants; `MCModeLine` takes strings and `ParamsFrom` of `Text`.
- *`Text`.* Characters are their codes. Scans are recursive functions; references in
  `TextInput` are written from the grammar (words, positional values, pairs of the
  RFC) and not from the scan. `ParseInt` also returns the largest value the
  accumulator took, so that overflow can be asked for. `NamesLines` is the loop of
  `sendNamesReply` over the members in any order. `TextInput` types every string over
  several alphabets, one character per step.

## 3. Runs

`tlc -workers 2 -config <run>.cfg <module>`; the module is `MCServer` unless named.

| Run | Instance | Distinct states | Checks |
|---|---|---|---|
| `registration` | 3 slow clients, nicknames `a`, `A`, `b`, `FairSpec` | 61 979 | `RegistryIsSound`, `MarkedClientsAreReaped`, `ImplementsNickRegistry` |
| `channel` | 3 slow clients, one channel, modes i, l, o, limit 2 | 598 925 | `TypeOK`, `NoDanglingPointers`, `RolesAreConsistent`, `MembershipEndsByRight`, `MarkedClientsTakeNoPart`, `DoorIsKept` |
| `modes` | 2 slow clients, one channel in 2 spellings, every mode, 2 topics, 2 keys, limit 1 | 124 437 | `TableIsSound`, `ChannelsStartFresh`, `ChangesComeByRight`, `ImplementsRoom` |
| `relay` (`Relay`) | 3 clients in any 2 rooms, room for one line and an ERROR, 2 commands, `FairSpec` | 537 892 | `UnwindsOnce`, `OneReason`, `QuitHeardOnce`, `MatchesOverflows`, `SendsReturn` |
| `output` (`MCOutputQueue`) | 4 lines: empty, full, too long; queue 7, kernel 3, `FairSpec` | 39 k | `NothingLost`, `WholeLines`, `QueueIsHonest`, `AllGetsOut`, `ClosesAnyway` |
| `input` (`ReadBuffer`) | every stream of 7 bytes, packets of up to 3, cap 3 | 247 k | `CutsDoNotMatter`, `QuitIsLast`, `OnlyFloodsAreCut` |
| `loop` (`PollLoop`) | 2 descriptors, 2 peers at a time, 2 packets each, `FairSpec` | 324 516 | `PollSetIsCurrent`, `HalfClosedIsReadToTheEnd`, `ComesToRest`, `NobodyStarves`, `SignalIsNoticed` |
| `modeline` (`MCModeLine`) | MODE strings of 3 letters, up to 2 parameters of one word, none or two, room for 5 or 12 bytes | 1.23 M | `AnnouncementsReplay`, `QueryReplays` |
| `text` (`MCTextInput`) | every line of 8 spaces, colons, letters; every string of 5 signs and digits, and of 5 protocol characters; every list of 10 commas, `@`, letters; every byte | 173 568 | `ParsesByGrammar`, `RelayedAsSaid`, `NumbersAreExact`, `SplitInverts`, `NamesSurviveTheWire`, `FoldsByRfc`, `NamesReplyIsWhole` |
| `claim_nick`, `claim_successor` | 2 clients, nicknames `a`, `b`, one channel | until refuted | `MemberNickUnambiguous`, `SuccessorIsOperator` (section 5) |
| `claim_told` (`Relay`) | 2 clients, one room, queues that do not fill | until refuted | `EverybodyIsTold` (section 5) |

Some properties name several invariants at once, each stated and commented where it
is defined: `RegistryIsSound` (`NickUnique`, `PasswordFirst`, `WelcomedOnRegistration`),
`RolesAreConsistent` (`OperatorsAreMembers`, `MembersAreRegistered`, `InviteesAreOutside`),
`TableIsSound` (`KeyedByFoldedName`, `NoEmptyChannel`, `EditedChannelExists`),
`ChangesComeByRight` (`PrivilegeStep`, `SettingsStep`), `DoorIsKept` (`EntryStep`,
`InviteStep`), `QueueIsHonest` (`WithinCap`, `LiveMissesNothing`), `PollSetIsCurrent`
(`EventsReachTheirOwner`, `NobodyMarkedIsPolled`). The types of `Relay`, `OutputQueue`,
`ReadBuffer` and `PollLoop` are not listed here: they are part of the inductive
invariants of section 4 (`TypeOK` or `Typed`).

The state space of `Server` is finite without a bound on behaviour: nothing counts. Why
these sizes are enough to be of interest: two clients give mark and successor,
operator and member; the third gives a bystander, whose queue is the one that
overflows, and a seat beyond a limit of two. One channel, in two spellings in
`modes`, suffices for all properties of one channel; the QUIT that is collected over
several is the subject of `Relay`, which has two. The proofs of section 4 remove the
bounds.

The bounds of the other modules: `Budget` (commands in `Relay`, lines in `OutputQueue`),
`MaxStream` (bytes received), `MaxPeers` and `MaxIn` (connections at a time, packets
per socket), `MaxFlags` (letters of a MODE string), `Inputs` (alphabets and lengths). In `Relay`
three clients and a queue of one line give a cascade of depth three, a client that
fails again while its own QUIT is being sent, and, in two rooms, a peer that would
be told twice; the second command finds the queues the first one filled.
In `OutputQueue` a queue of seven bytes holds one full line and part of no second,
a kernel of three cuts every line, and four lines reach refusal after a refill. In
`ReadBuffer` a stream of seven bytes passes the cap of three twice, cuts a line
anywhere, and holds two lines and an unfinished one; the constants keep the order of the
real ones (`RECV_CHUNK = MAX_READ_BUFFER`, `MAX_PAYLOAD_LEN` below both). In `PollLoop` a
second peer may connect while the first, marked, still has its descriptor, and is
accepted on the other or on the one given back; two packets are one more than a
recv takes. In `ModeLine` three letters are two flags that take a parameter and one that
takes none, in every order and with signs between; the parameters include the empty text,
one of two words that looks like a key and a trailing limit (`b :5`), numbers that are printed
otherwise than they are typed, and a nickname in two spellings; a room of 5 cuts lines with
two parameters in any place, a room of 12 cuts the longest only. In `Text`,
`INT_MAX` is scaled to 127: its last digit is 7 as that of 2^31 - 1 is, which is what
the boundary test of `parseInt` depends on; eight characters fit a prefix, a command, a middle and a
trailing parameter with a run of spaces; lines of nine bytes with a head of two
are filled, and split, by lists of two to five members.

*Deadlock* is checked in every run but `output`, which ends with the close of its client:
a server without clients still polls (`Reap`).

*Fairness.* `FairSpec` has `WF(ModeEnd)`: a MODE string is finite and its loop does
not wait for anything. It has `SF(Reap)`: an iteration serves finitely many
descriptors and each serves the finitely many lines it has in memory, so
`reapDisconnected` is always reached. `Reap` is disabled while a MODE string runs,
and clients may send such strings for ever, hence strong fairness. No fairness is
assumed of clients. The iteration that marks a client does not return to `poll`
before its reap, so the unbounded `poll` wait delays no deletion.

`Relay` has `WF(SendStep)`: a send waits for nothing. `OutputQueue` has
`WF(HandleWritable \/ WriteFails)`, since POLLOUT is level-triggered and armed while
something is queued, and `WF(Reap)`, since every iteration ends with one; the peer owes
nothing, and `AllGetsOut` assumes in its statement a peer that keeps reading. `PollLoop`
has `WF(Run)`: the process is scheduled. Its environment may stop for good (`calm`),
and `ComesToRest` is about what the loop does then; `NobodyStarves` needs no assumption
on anybody. `SignalIsNoticed` needs none either: a signal interrupts a `poll()` that sleeps, or
is found by the next test. The one that comes between test and `poll()` is excepted in the
property itself, until the loop serves its next event.

Each property has a mutated definition of the code under which it fails in the
same run (`mutants` in `PROJECT.json`; the operators stand beside the definitions
they mutate): a lookup without folding, a sweep that forgets invitations, a KICK
that forgets the rank, a `>` for a `>=`, a drain loop that goes on after QUIT, a
disconnect that does not test the mark, a CRLF appended before the cut, a `poll()` that
is called again after EINTR.

## 4. Proofs

`tlapm ServerProofs.tla`

The theorems hold for any finite set of descriptors, any nicknames, names, topics,
keys, limits, any folding and any set of slow clients, from the assumptions
`ChannelAssumption` and `ServerAssumption` alone: descriptors are positive (0 is
the listening socket), sentinels differ from values, limits are positive.

The inductive invariant `IInv` is `RegistryInv /\ TableInv`. The first part says
that flags and marks are about existing clients, that a descriptor without a
client has no nickname left over, and includes the three registration
properties. The second says that each channel in the table is a well-formed
record under the folding of its name, with operators inside members inside
`Registered`, invitees among the clients but outside the members, and someone in
it; and that the channel being edited is in the table. Most of the listed
invariants are not inductive alone. `NickUnique` needs that a reused descriptor
comes without a nickname, which is `PasswordFirst` with `hasPass` inside
`clients`; `WelcomedOnRegistration` needs the same for the flags;
`NoDanglingPointers` needs that members are registered clients, and that an
invitee is; `OperatorsAreMembers` needs `EditedChannelExists`, or MODE +o would
store a rank in a channel that is not there; `InviteesAreOutside` holds because
entering spends the invitation.

`NextKeepsIInv` has one lemma per action (`AcceptKeeps`, `ReapKeeps`, ...); the
channel actions share lemmas on what each record operator preserves
(`...WellFormed`) and on storing in and removing from the table (`TablePut`,
`TableRemove`). `SendMarks` is all the proof needs to know of overflow: a send
only adds marks, to existing clients.

The action properties rest on a second idea, `NextFates`: for an existing channel
a step does one of six things (it is swept, entered, left, gets an invitee, is
tuned, or stays), and a channel that appears was created by `turn`. Each action
property then is a case split over these fates, and not over all actions again.
`EntryIsGated` adds the arithmetic of cardinalities, `MarkedClientsAreInert` the
lemma that marks stay.

### The other proofs

- *Refinement* (end of `ServerProofs`): `NicknamesAreARegistry` and `ChannelsAreRooms` are
  `Spec => ...!Spec`. `IInv` is assumed before and after each step; `RefinementAssumption` says
  that `observed` is a key of the table and that `NoRoom` is no room. For nicknames, a step of
  `Server` changes the nicknames of at most one unmarked client and adds marks or
  deletes marked clients; so it is a `Claim` or a `Release` of the newly marked.
  For channels, `NextFates` gives the six things that happen to a channel, and each is
  an action of `Room`; `observed` is a constant, so one proof covers all channels.
- `RelayProofs`: `SendsUnwind`, `OneReasonIsTold` and `QuitsAreHeardOnce`, for any clients,
  rooms, cap and budget. The invariant (`IInv`) says that every frame about the end of a
  client is about a marked one with the reason on record (`FramesOK`), that only the
  bottom frame belongs to a command (`Nested`), that each end has its two frames
  at most once (`Distinct`), that the stack is no deeper than the marks allow
  (`Deep`), and the same of reasons in what was delivered (`StreamsOK`). `HInv` adds
  bookkeeping per pair of clients: who is not yet marked has no QUIT anywhere
  (`NotYet`), a QUIT is either delivered, or still to send, or never both (`Once`),
  and every peer of the mark is delivered, to be sent, or itself marked (`Told`).
  `SmallStepsMatchOverflows` is what lets `Server` treat a send as one step. Its invariant
  (`MInv`) says that the clients marked since the command began (`Fallen`) are at every moment,
  and not only at the end, a result `Overflows` allows, and that every frame sends to
  recipients of the command or peers of the fallen (`StackInReach`). A `Refuse` adds one
  client in reach (`OverflowsGrow`), so the set stays connected to the recipients.
- `OutputProofs`: `QueueStaysHonest`, `StreamIsKept` and type correctness, for any
  cap, payload limit, kernel buffer and lengths, by one invariant that is their
  conjunction. `LinesStayWhole` adds that everything accepted is made of whole lines; a
  line is accepted after it was cut and terminated, whole or not at all, and the other
  steps only move bytes from the queue to the wire.
- `ReadProofs`: `ReadBufferIsCapped` needs `RECV_CHUNK <= MAX_READ_BUFFER + 1`
  (`ReadAssumption`; both are 4096), for what is left after the last line of a
  packet is a part of that packet; `NothingRunsAfterQuit` needs that only an
  unmarked client has its lines executed. `PacketsDoNotMatter` and `FinishedLinesAreNoFlood`
  are for streams of any length. Their invariant (`SInv`) says that the buffer is the tail
  of the stream behind the last line executed (`BufferIsTail`), that line n was made of
  what lies before the n-th line feed (`LinesAreThose`), and that who was dropped as a
  flood had an unfinished line over the cap (`FloodIsUnfinished`). The lemmas on
  counting line feeds up to a position make the step: a `Recv` adds none before the old end,
  a `HandleLine` passes exactly one.
- `PollProofs`: `PollSetStaysCurrent` and `FinIsTheEnd`, for any descriptors and packets. The strengthening says that outside the serving of events nothing is
  left over from the last iteration (`Settled`), that a hangup is only reported for a
  broken connection, and that a client marked because of its peer has lost it.

- `ModeLineProofs`: `AnnouncementsAreExact` and `QueriesAreExact`, for MODE strings of any
  length over any texts, any room, any parser and any measure of texts: what they say of a
  line that was cut, or has a text that is no single word, is nothing, and the properties
  state these exceptions themselves. The invariant (`MInv`) says that inside a
  command the accumulated flags and texts, read from the old modes, give the new ones
  (`Tells`), as long as every text was one word, and that nothing is left to tell outside of
  one. `Read` of a line with one flag appended is `ReadFlag` of what was read before;
  `WholeArrives` says that such a line comes through cut and parser as it was written.
- `TextProofs`: `FoldingIsByRfc`, `SplittingIsExact`, `SpeechIsRelayedAsSaid`, `NamesSurvive`,
  `NumbersAreTaken`, `MembersAreListed` and `ParsingIsByGrammar`, for strings of any length over any bytes but NUL, any `INT_MAX` from 9
  up and any limits. The strings are not bounded here: `Inputs` is any assignment of
  lengths. Each proof first finds the scan's recursion equation (`SplitUnrolls`,
  `ParamsUnroll`, `AccumulateUnrolls`, ...) and then goes by induction. For numbers the key
  is what one more character does, to the loop (`AccumulateOneMore`) and to the positional
  value (`ValueOneMore`): the loop is exact (`LoopIsExact`) by induction on the length, and
  what `toString` prints is read back (`DigitsReadBack`) by strong induction on the number.
  For the 353 lines the invariant of the loop (`Listed`) says that the names in the lines
  sent and in the one being filled are the entries so far, in order, that every line fits,
  and that each line began with a name its predecessor had no room for; `SplitMore` (a word
  after a space is one more field) keeps the first part. That a line holds its first entry
  is where the limits come in: an entry is a nickname with a rank, and `TextAssumption`
  says that it fits behind the head. For the parser the grammar speaks of the set of words
  of a line (`Stretches`) and of their order (`InOrder`); that an order exists is an
  induction over where words start (`OneMoreWord`), and each skip of spaces then leads
  from one word to the next (`SkipToWord`, `NextIsNext`), so that the parameters from each
  word on agree by downward induction (`ScanIsGrammar`).

*Induction.* A function defined by recursion in TLA+ is a CHOOSE, and the induction
theorems of the proof system's library range over formulas, which no available prover can
instantiate. `Induction` states them over sets instead: `LeastNatural` from the well-founded
order on subsets of an interval, then `SetInduction`, `BoundedInduction`,
`StrongInduction` and `DownwardInduction`, and the existence of functions defined step by step
(`RecursionExists`) or along a decreasing rank (`DescentExists`). An invariant of sequences
becomes the set of the numbers at which it holds. `Stripped`, `Joined`, `Accumulate`, `Value`,
`Visit` and `NamesIn` are recursive functions, not library folds, so that these lemmas apply to them.

*Assumptions.* Beside `ChannelAssumption` and `ServerAssumption`: `ModeLineAssumption`
(the empty text is no word, what `toString` prints of a number is read as that number, a
member answers to the nickname he is listed under), `TextAssumption`
(`INT_MAX` is at least the largest digit, limits are natural numbers, a 353 line has room
for one operator: with names of at most 50 bytes and nicknames of at most 30 the code leaves
him most of its 510), `InputsAssumption`
(alphabets of bytes, bounded lengths), and `ReadAssumption` above. TLC evaluates all of
them on the runs.

Proved: every invariant and action property of the passing runs, and both refinements;
33 of the 40 properties that these runs check are stated by a theorem.

Only model-checked:

- liveness (`MarkedClientsAreReaped`, `SendsReturn`, `AllGetsOut`, `ClosesAnyway`, `ComesToRest`,
  `NobodyStarves`, `SignalIsNoticed`), which is out of the prover's reach;
- the claims of section 5, which are false.

## 5. Where code and documents disagree

Three are runs that TLC refutes; the trace is the evidence. All three are about the
window between mark and reap.

- `claim_nick`: the comment at `src/Server.cpp:341` says that a marked client has
  released its nickname. `findMemberByNick` does not skip marked members: the
  successor of the nickname may join the same channel in the same iteration, and
  KICK or MODE +o takes the one with the lower address, perhaps the dead one.
- `claim_successor`: the comment at `src/ServerChannels.cpp:158` says that a channel
  whose last member left is gone and the next to join operates a fresh one. A
  JOIN in the iteration in which the last member quit enters the old channel as an
  ordinary member, and the sweep leaves it there without an operator.
- `claim_told`: the comment at `src/ServerChannels.cpp:91` says that QUIT reaches everybody
  who shares a channel. A client that joins between mark and reap is listed
  a member that never quits.

The others were met while modelling and can be read off the actions named.

- `docs/ARCHITECTURE.md:454` reserves INVITE to operators; `cmdInvite` (`Server!Invite`)
  does so only under +i, on purpose according to its comment. The invitation of an
  ordinary member is still good after an operator sets +i.
- `docs/ARCHITECTURE.md:450` says that a missing key is refused. MODE +k accepts an empty
  key, which a missing one equals (`Channel!PassesModeGates`).
- `docs/ARCHITECTURE.md:365` has ERROR sent immediately before the close. It is queued at
  the mark, and commands of other clients in the same iteration queue their lines
  behind it (`Relay`).
- The comment at `src/Server.cpp:119` says that `run()` notices a signal on its next pass.
  One that comes between the test of `g_shutdown` and `poll()` waits for some other
  event; `SignalIsNoticed` states that every other signal ends the loop.
- The comment at `src/Server.cpp:183` says that the loop wakes only when something happens.
  When there is no descriptor for a waiting connection, `poll()` returns at once for
  as long as it waits: `ComesToRest` fails with one peer more than descriptors.
- The comment at `src/Server.cpp:217` says that POLLIN comes before POLLHUP so that a QUIT
  is not thrown away. One recv is done; what is behind it is lost when the connection
  is reset. `HalfClosedIsReadToTheEnd` states what does hold.
- The comment at `src/CommandsChannel.cpp:732` says that MODE announces "what happened rather
  than what was asked for". Any text is taken for a key: an empty one is announced as no key,
  one with a space in it or a colon in front as other words, and a long one is cut with its
  line by `sendToClient`. The same key spoils the answer to the query: an empty one with a
  limit gives `+kl  5`, which reads as the key 5. `AnnouncementsReplay` and `QueryReplays` name
  these as their exceptions, and state what does hold; without the conjunct `whole`, TLC
  refutes the first one in the run `modeline` after three steps, with an empty key.
- The comment at `src/Utils.cpp:94` says that the empty name of `JOIN :` earns a 403.
  `joinOneChannel` ignores it, on purpose; the comment is out of date.

Other observations, no one's promise: a QUIT that is sent inside another send may
reach a peer before the line that caused it; a key with a comma can be set and never
be typed in a JOIN; a long text that is relayed loses its end at 510 bytes, which
`RelayedAsSaid` leaves out (`docs/ARCHITECTURE.md:552` documents it); MODE that is refused an absurd limit says nothing (decision D12).

## 6. Not modelled, and what is left

Not modelled for good: the entry point and the socket setup, which run once before any
client exists; logging; allocation failure (the process ends); `clearAllChannels` and
`~Server`, after the loop; the wording of numerics; the table of command names, a constant.

Left open:

1. One composition of `PollLoop`, `ReadBuffer`, `OutputQueue` and `Server`: each is checked
   against an environment that does everything its neighbours can, which is more than they do;
   the product is beyond TLC for sizes of interest.
2. Queues with lengths in `Server`, in place of `Slow` clients whose every send may
   overflow. `Relay` shows for its own commands that the one-step result is enough.
