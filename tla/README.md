# RustMine in TLA+

A verification project for RustMine, a Minecraft Bedrock server in Rust: TLA+
modules of its protocol and server state machines, TLC configurations that
check them on small instances, and proofs that TLAPS checks for every value of
the constants. Paths below are relative to the repository's root (`src/` in
`PROJECT.json`); line numbers are those of the commit the modules were written
from.

- [The system](#the-system): components, state, interactions, what is hard
- [Modules and code](#modules-and-code)
- [Runs](#runs): what each checks, its bounds, and what it shows
- [Fairness](#fairness)
- [What is proved](#what-is-proved)
- [Where code and documents disagree](#where-code-and-documents-disagree)
- [What is not modelled](#what-is-not-modelled)
- [Plan](#plan)

To check everything: `tlc -config R.cfg M` for each run R of module M in the table
below, and `tlapm M.tla` for each module whose name ends in `Proofs`.

## The text that is modelled

The tree does not build as committed: `connection.rs:165` declares `order_indices`
with an initialiser of another type, `main.rs` calls constructors of `RaknetServer`
(`new_with_hooks`, `outgoing_sender`, `run_arc`) that the crate does not have, awaits
`read()` and `write()` on sessions that are no locks, and counts `tick_count` through
a shared reference. `commands/src/lib.rs` hands closures to `register` where it asks for a
`CommandExecutor`, which no closure implements. The modules take the text at its word: the wiring that `main.rs`
asks of those constructors (a Connected event goes to `conn_tx`, a GamePacket to
`in_tx`, nothing is done with a Disconnected) is part of `ServerTasks`, marked
external; a closure handed to `register` is read as the executor that calls it.

## The system

| component | state | operations | what is hard |
|---|---|---|---|
| RakNet connection table (`crates/raknet/src/server.rs`, `connection.rs`) | `Inner.connections`: address to `Connection`, behind one mutex | ping, open-connection requests 1 and 2, frame sets; a resend/timeout task; events to the server | two tasks interleave at every send, for which the lock is dropped; datagrams lost, late, repeated, reordered; a table limit; an inactivity timeout |
| RakNet sending half (the same) | per connection: send sequence, order index, split id, pending frames with their retries | build datagrams, ACK, NACK, resend every 800 ms, give up after 10 retries | retransmission racing ACKs; NACKs and timer count the same retries; a client process that comes back at the same address |
| RakNet receiving half (the same) | per connection: ranges of received numbers, partial split payloads | frame sets, reassembly, expiry of partials, ACKs | duplicates, reordering, expiry, state inherited by a new client process |
| RakNet wire format (`crates/raknet/src/packet.rs`) | none | encode and decode | u24 counters, bit counts, lengths |
| Server tasks (`crates/server/src/main.rs`) | `sessions` (RwLock), `world` and `game` (Mutex), two channels | connection handler, packet handler, game loop, console | locks held over an await on another lock; two channels with no order between them |
| Session (`crates/server/src/session.rs`) | login state, position, view distance, pending interactions, queued answers | `on_packet` for each packet of a batch | packets out of order, repeated, several in a burst; flags and positions used after the packet that set them |
| World (`crates/world/src/lib.rs`) | columns made on demand, each subchunk a palette and indices | `get_chunk`, `get_block`, `set_block`; flat and noise generators | negative coordinates, three levels of addressing, palettes that only grow |
| Game state and clock (`crates/game/src/lib.rs`) | tick count, time of day, players | `tick`, player and block events | ticks made for events drop their outputs |
| Subchunk codec (`crates/protocol/src/chunk.rs`, `decode.rs`) | none | encode and decode palette and packed indices | index widths that do not divide a word |
| Login encoders, batch, VarInt, NBT, block interaction packets (`crates/protocol`, `crates/nbt`) | none | encode and decode | boundaries |
| Commands (`crates/commands`) | a registry, filled at start and open to more | parse a line, register, execute | quoting; names and aliases that collide; a map searched in no order; a console that is ended by the text of a message |
| Configuration, ECS, plugin API, network tools | read once, or unused | | |

How they interact. The RakNet inbound task reads one datagram at a time, changes the
table under its lock, and sends answers and events after it has dropped it; the
resend/timeout task does the same every 800 ms. Its events reach the server on
two channels: new connections go to the connection handler, which makes a `Session`
under the write lock of `sessions` and a player under the lock of `game`; payloads go
to the packet handler, which holds `sessions` for writing while it feeds a batch to the
session and applies the block interactions that the session left (under `world` and
`game`), then sends the answers and, if the last packet asked for them, columns. The
game loop ticks `game` 20 times a second and, still holding it, reads `sessions` to
broadcast the time. What these send goes back to RakNet's outbound task, which numbers
it, cuts it up and keeps it until it is acknowledged.

What makes each of them correct, in short: every connection that is announced is
announced gone, exactly once; what was sent to a client arrives, in order, once; what
a client sent is handed up whole, once; sessions, players and entity ids agree and no
task waits for ever; a login is answered step by step and columns come after the world
they belong to; the world is one block per position; clients are shown the time of day
that the ticks make; a subchunk is read back as it was written; a command gets the words
that were typed, and registering one takes no label from another but its own aliases.

## Modules and code

Every definition that stands for code is listed with its lines in `PROJECT.json`, under
`map`. In the modules, an operator whose comment begins with "Mutant:" is a plausible
bug, used to see that a property notices it; it is not part of a specification.

| module | models | state and steps |
|---|---|---|
| `ConnectionTable` | the connection table and its events | one variable per address for the entry's state (`conn`) and for silence (`stale`); `handler` is the place of the inbound task and `dropped` that of the timeout task. A handler that answers is two steps, the locked one (`Ping`, `Request1`, `Request2`, `FrameSet`) and the one after the send (`Ponged`, `Replied1`, `Replied2`, `Acked`); the timeout is `TimeoutStale`, then one `Announce` per address. An ACK or a NACK (`Acknowledge`) touches neither state nor silence. Any datagram may come from any address at any time, which covers loss, delay, repetition and reordering. History variables count events. |
| `ReliableSend` | the sending half for one address, with the network and the client | `log` holds the datagrams built, `pending` and `retries` the pending frames, `wire` the copies under way. `Outbound`, `HandleAck`, `HandleNack`, `ResendPending` and `TimeoutStale` are the handlers and the timer, `Request1`, `Request2` and `Request2OfNewClient` what a handshake does to the counters. A payload that is split is cut so that every part fills a datagram (the part is the MTU less 24, and a frame header of 20 and a datagram header of 4 are added), so a datagram is one frame. |
| `OrderedChannel` | what reliable, ordered delivery promises | two sequences, what was sent and what was delivered |
| `ReliableReceive` | the receiving half for one address, with the network and the client | `recv_queue` is `RecvQueue.ranges` with `Push` and `Holds`; `split_packets` the partials with `Feed` and `Expire`; `HandleFrames` the handler. |
| `ServerTasks` | the tasks of `run_server` and their locks | each task has a place; a step is what it does between two awaits, and `held` says which locks it keeps over one. A batch is its source, its interactions, whether it asks for columns, and whether it decodes; `RejectBatch` drops one that does not |
| `Session` | `on_packet` under the packet handler | one action for each packet that the state expects, `Ignored` for all others; `Receive`, `Apply` and `Respond` are the packet handler. Positions are one-dimensional. |
| `World`, `FlatWorld` | `World`, `Chunk`, `SubChunk`, `BlockPos`; the flat generator | `chunks`, from column to subchunks; `GetChunk`, `SetBlock`, and `GetBlock`, which changes nothing. `World` is parameterised by its generator. |
| `BlockMap` | what a block world promises | one block per position |
| `GameClock` | `GameState::tick`, its callers, and the time that a client is shown | `LoopTick`, `EventTick`, `Enter` |
| `Commands` | `CommandParser::parse`, `CommandRegistry`, the built-in commands | pure operators over lines, which are sequences of characters with a run of ordinary ones as one; of a built-in command its aliases and what of its arguments its message repeats, since the console looks into the message |
| `Console` | the console task, with the registry it shares, beside the clock | `Stop`, `Answer` and `RunCommand` for a line, `Register`; extends `GameClock`, whose steps it leaves as they are |
| `VarInt` | the 32-bit VarInts, ZigZag, numbers of fixed width | pure operators over sequences of bytes |
| `SubChunkCodec` | `encode_subchunk`, `encode_chunk_column`, `decode_subchunk` on the subchunks that `set_block` makes | `Encode`, `EncodeColumn` and `Decode` over bytes; the one variable is the subchunk. An index has 16 bits (`Index16`); the values of the bits of a word are `Bit`; `TakeId` and `TakeSub` are a round of the loops that read a palette and a column |
| `WireFormat` | frames, datagrams, ACKs, the cutting up of payloads, batches | pure operators over bytes; `TakeFrame`, `TakeRange` and `TakePacket` are a round of the loops that read them |
| `OfflinePackets` | RakNet's offline packets, what each is answered with, the MTU that comes of it | pure operators over bytes |
| `ChunkPath` | the handshake that agrees on an MTU, then a column from `encode_chunk_column` through frames and datagrams to a client, and the ACK that comes back | composes the four above; no state of its own |
| `ConnectionTableProofs`, `ReliableSendProofs`, `ReliableReceiveProofs`, `ServerTasksProofs`, `SessionProofs`, `WorldProofs`, `ConsoleProofs`, `ChunkPathProofs` | the theorems of these modules | |
| `MC...` | values for TLC | |

Two modules are shown to implement another, each by TLC and by proof: `ReliableSend`
implements `OrderedChannel` and `World` implements `BlockMap`.

What stands outside the modules: the network, which delays, repeats and reorders
datagrams and loses a bounded number of them, but brings the datagrams of a removed
entry to no client for which the next one is made (no datagram is as old as
`CONNECTION_TIMEOUT` and a handshake); the client, which numbers its own datagrams from 0
and repeats
them under their own number, puts split payloads together by split id, hands up by
order index, and does not discard frames by reliable index (see below); and whoever
types at the console.

## Runs

| run | instance | what it shows |
|---|---|---|
| `ConnectionTable` | three addresses, a table with room for two, five datagrams in any order | Under every interleaving of the inbound and the timeout task, with handshakes refused and late ones that demote a Connected entry, the Connected and Disconnected events of an address balance with its entry (`ConnectionAccounting`), no payload is announced before its connection (`ConnectedBeforeGamePacket`), at most the datagram in hand is announced after its entry is lost, to the timeout or to a Request1 (`AtMostOneLate`), and once clients are silent every connection is announced gone unless a late Request1 demoted its entry (`EveryConnectionEnds`). |
| `ConnectionTableRace` (violation) | two addresses, three datagrams | A client that comes back between the removal of its entry and the event is announced gone while it is connected. |
| `ReliableSend` | two client processes in turn at one address, two payloads of which one may be split, one retry; ACKs, NACKs, repetitions and delays without limit; entries that time out, of a living client as well | A frame the client never got is given up only after all retries (`GivesUpOnlyAfterRetries`), however timer and NACKs interleave; a client for which the entry was made is served as `OrderedChannel` promises, whatever a predecessor left behind (`DeliversInOrder`). |
| `ReliableSendLive` | one client, a split payload, two retries, two losses | With no more losses than retries every payload arrives while the entry stays (`AllDelivered`), and no frame stays pending for good (`PendingDrains`). |
| `ReliableReceive` | two client processes in turn, two messages of one or two parts or packed in one datagram, four datagrams, one ACK lost | The ranges hold exactly the numbers accepted (`QueueIsReceived`); messages are handed up whole, at most once, and none that was heard is forgotten (`OnlyWholeMessages`, `NoDuplicates`, `HeardIsHanded`), and a client that repeats sees everything acknowledged (`RepeatedIsAcknowledged`). `OnlyWholeMessages`, `HeardIsHanded` and `RepeatedIsAcknowledged` name the conditions under which they hold; an entry that times out while its client lives is among what happens, and excepted by the last. |
| `ServerTasks` | two addresses, three Connected events, two batches that break and place a block, skip an interaction, or do not decode | Under every interleaving of the four tasks no two sessions share an entity id, every session's entity is a player, and a batch that decodes is dropped only while the Connected event of its address waits on the other channel (`DropsOnlyBeforeConnect`); until a client touches a block the game loop ticks for ever and everything is handled. |
| `ServerTasksBreak` (violation) | one client, one broken block | The game loop and the packet handler wait for each other, or the handler for itself and the loop for it, and the server never ticks again (`TicksForEver`). |
| `World` | subchunks of eight cells, columns of two, five positions on both sides of zero and one out of bounds, as many ids as an index can tell apart (four) | The world implements `BlockMap` (`IsBlockMap`): no two positions share a cell and no palette entry moves; `set_block` puts the id it was asked for (`SetsTheBlock`); `get_block` follows `set_block` (`ReadsFollowSets`). |
| `Session` | eight packets in bursts of up to four | Whatever comes, the steps of the login are answered once and in order (`AnswersInOrder`), columns come after a StartGame (`ChunksAfterEntry`), and nothing of a burst is left to the next (`NothingLeftOver`). |
| `Console` | a period of two ticks, a day of three updates, nine ticks; labels that are names, aliases, capitals or nothing, arguments with blanks, quotation marks and slashes in each of the marks they can be typed in; two registrations over names and aliases that are taken | A period without events or entries makes up for updates that were lost (`QuietShowsTime`), whatever is typed. A command is run with the words that were typed (`RunsWhatWasTyped`). A registration leaves every label naming what it named, and takes over only its own aliases and those of the command it replaces, never a name (`RegisterKeepsLabels`). |
| `ChunkPath` | 12 cells, words of 16 bits, palettes of up to ten ids (one to four bits per index) on both sides of every length of a VarInt; probes below, within and above the limits of the MTU, which give one to six datagrams | Both replies of a handshake name one MTU, and datagrams are then filled to it, but for the least size (`HandshakeAgrees`). A column whose subchunks fill their words is read back as it was written, the subchunks that it leaves out included (`ColumnReadBack`). A payload comes out of its datagrams as it went in, none of which is larger than the MTU, and a batch as its packets (`PayloadCarried`); an ACK of all datagrams but one is read as that (`AcksNameTheRest`). Three of them say for what: lengths below `MaxLength`, 2^30, where the code's are a u32; datagram numbers of 24 bits, which is all that is written of them (`Numbered`); and for columns, indices that fill their words (`Aligned`), since others are not read back (`SubChunkCodecFive`). |
| `SubChunkCodecFive` (violation) | a palette of five ids | With three bits per index a subchunk is not read back as it was written. |

A module with state of its own has one type invariant, `TypeOK`. That of the console,
`ConsoleTypeOK`, includes the clock's; that of the subchunk is implied by the codec's
invariants, so no run repeats it.

The bounds and why they are enough. Counters that would grow without end are bounded
by constants whose names begin with `Max` (datagrams, messages, events, packets,
losses, client processes), which the modules declare as bounds; all guards that use
them are guards of the environment, save `MaxFrames` and `MaxTicks`, which stop the
model from building more datagrams or making more ticks than it has names for.
`MaxRegistered` bounds the registrations, `MaxArguments` the arguments of a line; two
registrations are one that takes a name or an alias and one that takes it again. Nine
ticks are a day and a period of its next. Three addresses go beyond a limit of two,
which leaves a Request1 room while there is an entry to demote; two are enough for the
distinctness of ids; two client processes for what one leaves to the next; two split
messages for partials that grow side by side; eight packets for a login (three), a
refusal, a respawn and moves around them.
Sizes are scaled, not left out: an index of a subchunk, a period of the clock, a word
of the codec, MAX_RETRIES. `RESEND_INTERVAL`, `CONNECTION_TIMEOUT` and
`SPLIT_PACKET_TIMEOUT` are not numbers in the model: their passing is a step that may
happen at any time.

`CHECK_DEADLOCK FALSE` is said where the system really ends: the process when the
RakNet task has returned (`ServerTasks`), the session when its packets are used up or
its handler is stuck (`Session`), the clock with the console, and the codec, at their bound. In
`ConnectionTable`, `ReliableSend`, `ReliableReceive` and `World` deadlock is checked.

## Fairness

- `ConnectionTable`: the two tasks are polled and their sends return (weak fairness
  of `Resume`, `TimeoutStale` and `Announce`), and time passes (`GoStale`). Nothing makes
  a client send.
- `ReliableSend`: the timer task runs (`ResendPending`, `TimeoutStale(FALSE)`), intervals
  end, the client takes what arrives. ACKs and NACKs owe nothing, nor does a connection
  that times out.
- `ReliableReceive`: a client repeats what is not acknowledged, and what is repeated
  for ever arrives (strong fairness, as it is repeated while the entry may be
  Handshaking); a handshake that was begun is completed; ACKs that are not lost arrive.
- `ServerTasks`: strong fairness for each task. The runtime polls every task that can
  run, and tokio's locks are granted in the order in which they are asked for, so a
  lock that is free again and again is got in the end. RakNet, clients and the console
  owe nothing.

`Session`, `World`, `Console` and `ChunkPath` state no liveness: each of their steps is
owed to a caller that owes nothing.

## What is proved

For every value of the constants, with no assumption but those the modules name.

**`ConnectionTableProofs`**, for any set of addresses, limit and number of datagrams:
`TypeCorrect`, `AccountingHolds` (ConnectionAccounting), `PacketsFollowConnected`
(ConnectedBeforeGamePacket), `OneLateAtMost` (AtMostOneLate), from `Invariance`. The
inductive invariant adds to these what the place of the inbound task implies: a
handler that has completed a payload and waits for its ACK to be sent was let in by a
Connected entry, of which Connected was announced or is owed, and it can owe no
Connected itself, since it runs one datagram at a time. `ConnectionAccounting` is
what carries the step: a Connected entry forces the sum of the events to be positive.
`NoneLateYet` does it for the late datagrams: of a Connected entry, and of one whose
payload is in hand, none was late yet.

**`WorldProofs`**, for subchunks of any edge, columns of any height, any positions, any
set of ids and any generator of well-formed columns: `TypeCorrect`, `SetBlockCorrect`
(SetsTheBlock), `ReadsCorrect` (ReadsFollowSets) and `Implements` (IsBlockMap, the refinement
of `BlockMap`). The hypothesis is `PaletteFits`: an index can tell the ids in use apart,
which the code takes for granted. The invariant is `TypeOK` itself, which says more
than types: no palette has a repetition and no index points past its end. The argument
goes from arithmetic (division with remainder tells positions apart: `Division`,
`SameDigits`, `CellDigits`) to addressing (`Addressing`: two positions of a column with the same
subchunk and cell are the same) to palettes (`SetCellCorrect`) to columns
(`ColumnSetCorrect`) to the world.

**`ReliableSendProofs`**, for any messages, cuts, retries, losses and numbers of client
processes: `TypeCorrect`, `GiveUpCorrect` (GivesUpOnlyAfterRetries) and `ImplementsChannel`
(DeliversInOrder, the refinement of `OrderedChannel`). The invariant adds `Traffic` to
TypeOK: no datagram is on its way more often than it was sent, nor one that was not
built, and a removed entry leaves no pending frames. Its datagrams are gone when the next
entry is made for a new client (see what stands outside the modules); otherwise that
entry, which counts from 0 again, would give an old datagram's number to another frame. The refinement also needs `Carried`: the frames of the log carry what was
sent under their order index, and frames with one split id belong to one payload. So
what the client puts together from a fresh entry (`HandsUpNext`) is the next payload of
the channel; every other step is a stutter of it, save a payload taken and a client that
comes.

**`ReliableReceiveProofs`**, for any messages, cuts, numbers of datagrams and of client
processes, and any order and repetition of what arrives.

- The queue: `QueueCorrect` (QueueIsReceived) and `AcceptedOnce`: a number that the entry has
  accepted changes nothing when it comes again, and is not acknowledged. The ranges need
  not be in order or apart, and are not: the invariant says only that none is turned
  round (`Span`). `Pushed` (a push covers the new number and no other) and `HoldsCovered`
  (`contains` finds what they cover) are the two lemmas it rests on.
- Reassembly: `TypeCorrect` (TypeOK), `PayloadsAreWhole` (OnlyWholeMessages), `HandedOnce`
  (NoDuplicates) and `NothingForgotten` (HeardIsHanded), from `SortedInvariance`. None of the
  four is inductive alone. `Sending` says how the client numbers: each part of a message is
  in one datagram, at a distance from the others that their parts tell, and parts with
  one split id are of one message. `Sorted` says what becomes of them. A partial or payload
  begins with the first part of at most one message, and no two with the same: a first
  part is in one datagram, which is accepted once (`Unseen`), so a second one would have to
  come from a datagram accepted twice. This is all that `HandedOnce` needs, and it
  survives a reconnection, where partials of a former client stay: theirs are not `Own`.
  Where the entry was made for the client, every part kept is its own, so a partial is of
  one message (`SameSplit`); and `Accounted`: each frame that was read is in a partial, or
  its message was handed up or lost with a partial that was too old. A message that is
  read in full then has all its parts in one partial, which would be whole (`AllRead`).
  The frames of a datagram are a fold in the model, of one step or two by `OneOrTwo`
  (`FeedOne`, `FeedTwo`), so no induction is needed. TLC checked the invariant on the run's
  instance and on one of three messages, four datagrams and three parts (574 911 states)
  before it was proved.

**`ServerTasksProofs`**, for any finite set of addresses and any interactions: `TypeCorrect`,
`IdsAreDistinct` (EntityIdsDistinct), `SessionsJoin` (SessionsArePlayers) and `DropsAreEarly` (DropsOnlyBeforeConnect), from `Invariance`. An id is the
number of sessions plus one, so distinctness is not inductive alone: `IdsCounted` adds
that no id is beyond the number of sessions. `PlayersFollow` says that the player the
connection handler is about to add is the only one a session may lack. `BatchesFollow`
ties the two channels: a batch waits with a session, or behind the Connected event that
will make it, since RakNet announces in that order; one that does not decode is dropped
all the same, which `DropsOnlyBeforeConnect` excepts. `HasWork`, that the packet handler is
at its places only with an interaction in hand, is what types need.

**`SessionProofs`**, for any positions, radii, reaches and bursts: `TypeCorrect`,
`LoginInOrder` (AnswersInOrder), `ColumnsAfterEntry` (ChunksAfterEntry) and
`BurstsAreFinished` (NothingLeftOver), from `Invariance`. `ToldByState` ties
what the client was told, and what waits to be told, to the state: up to the world it
is one sequence, packet by packet; in the world it goes on with packets of the world
only; and columns are due in the world only. `TakenUp` says what each place of the handler
has emptied.

**`ConsoleProofs`**, of the clock and of the console.

- The clock, for any period, day and noon: `QuietTimeIsShown` (QuietShowsTime), from
  `Invariance`. It needs `BehindIsRecent`, that a client who is shown another time than the
  present one has been so for no more quiet ticks than there are since the last multiple
  of the period.
- The console, for any lines, labels, commands and registrations: `TypeCorrect`
  (ConsoleTypeOK), `QuietAtConsole` (QuietShowsTime beside the console, from the lemma
  `HasClock`: what the console does is no step of the clock), and `LabelsStay`
  (RegisterKeepsLabels): where what a label finds changes, it named no command before, and
  is the name or an alias of the new one, or an alias of one that it replaces (`LabelsKept`).
- The parser: `WordsAreRun` (RunsWhatWasTyped), from `TypingsAssumption`: the words are not
  empty, each is typed in a mark that it can have, and a bare first word that begins with
  a slash has another before it (the parser takes one away, and drops empty words). The
  parser's loop is a function on the positions of the text. `ReadAllConcat`, that two texts
  are read one after the other, makes a character, a word and a line three inductions of
  a few steps: `ReadAllPlain` (what is taken as it is goes to the end of the word),
  `ReadMarked` (a typed word is read as the word) and `ReadPieces` (so are words with
  blanks between them). `TrimBlank` is what the task and the parser take away. The
  library's induction theorems take an operator, which the provers cannot instantiate;
  `Induction` says the same of a set of numbers, from the well-foundedness of < (`WFMin`).

**`ChunkPathProofs`**, for subchunks of any size up to the code's 4096, words of 16, 24 or 32
bits, any sequence of `set_block`, any probes, guid, MOTD and limits of the MTU. The
assumptions on constants are what the wire can hold: an MTU below 2^13 (a frame's length
is written in bits, in 16 of them; `MAX_MTU` is 1492), ids below 2^30, and chunks at most
2^28 from the origin (blocks at an i32 are in as many). Every invariant that the run
checks is a theorem here.

Two things carry all of it. What a buffer has at a place is what was written there
(`Within`, which `WithinEnd` states of what was written last, `WithinOn` keeps while more is
written and `PiecesWithin` states of many pieces in a row). And what a loop of the code puts
together or takes apart is a recursive function of the model: that such a function exists is
itself proved by induction (`Recursion`, with `SameLoop` for the CHOOSE that stands for it),
and then only its steps are used. Numbers are read as they were written by `BytesRead` (of
fixed width) and `VarIntRead`, which `SevenBits` and `VarIntLoop` take round by round.

- `Agreement` (HandshakeAgrees), the handshake: each packet is read as it was written
  (`Request1Read`, `Reply1Read`, `Request2Read`, `Reply2Read`, and `AddressRead` for what is in
  them), so both replies name the MTU that the probe's length gives.
- `DatagramsFit`, of every payload: no datagram is longer than the MTU. A part is at most
  the MTU less 24 (`FramesAreCarried`), its header takes 20 of them (`FrameLength`), and a
  round of the loop adds a frame to a datagram only where it fits (`JoinFits`), so an
  induction on the frames does the rest (`DatagramsAreFitting`).
- `PayloadsCarried` (PayloadCarried): a frame is read as it was written (`FrameRead`, from
  `WholeRead` and `PartRead`), so the loop of `decode_datagram` takes the frames that were put
  in, and stops behind the last (`DatagramRead`); the datagrams hold the frames of the
  payload in their order (`FramesInOrder`), and these make the payload again, from first to
  last or from last to first (`CutTogether`). A batch is read packet by packet (`BatchRead`).
- `AcksOfColumns` (AcksNameTheRest): the numbers of the datagrams are an interval
  (`DatagramNumbers`), so what is left without one of them is at most two ranges
  (`RangesOfTheRest`), read as they were written (`AckRead`), which name the others and not
  that one (`RestNamed`).
- `SubChunksStay`, the inductive invariant of the subchunk: a palette that begins with air,
  ids short enough for their VarInts, and an index of 16 bits for each block, below the
  size of the palette. Without a palette there is no number of bits, so even that a
  column is a sequence of bytes rests on it (`EncodeSequence`, `PackSequence`).
- `ColumnsReadBack` (ColumnReadBack): the invariant of the packing loop, `PackHolds`, says
  where each index is that was put, in the words that are out or in the one that is
  being filled. `IndexAdded` is its step: an index added above others in a word leaves
  them as they were, by division with remainder alone. Powers of two are `Bit`, a recursive
  function with the laws `BitPlus` and `BitGrows`, as the solver computes with no power
  that has a variable. A word and an index are then read from their place (`WordRead`,
  `IndexRead`), the palette behind them (`PaletteRead`) and so the subchunk (`SubRead`);
  subchunks are read from a column one after the other (`ColumnRead`); and those that
  `calculate_needed_height` leaves out are air (`HeightNeeded`, `EmptyIsAir`).

Every safety invariant, action property and refinement of a passing run is a theorem.
Only model-checked is liveness: `EveryConnectionEnds`, `AllDelivered`, `PendingDrains`,
`RepeatedIsAcknowledged`, `TicksUntilInteraction` and `HandledUntilInteraction`. It rests on
fairness, and the proof system has no rule for ENABLED here.

## Where code and documents disagree

Three disagreements are runs that TLC violates, listed with their lines in
`PROJECT.json`:

- `ConnectionTableRace`: `server.rs:47` says of Disconnected "A client timed out or otherwise
  disconnected."; the event is sent after the lock is released, and may name an address
  that has connected again.
- `ServerTasksBreak`: `main.rs:444` says "20 TPS Game loop". With a time update to broadcast the
  loop waits for `sessions` with `game` held (line 460). For a block that was air already
  the packet handler waits for `game` with `sessions` held (line 359), and neither goes on:
  this is what TLC shows. For any other, broken or placed, the handler waits to read
  `sessions` (line 342, 388) while it holds it for writing; so does the loop in the end, and
  the connection handler.
- `SubChunkCodecFive`: with three, five, six or seven bits per index the encoder shifts the top
  bits of an index out of its word (`chunk.rs:194`), and writes fewer words than the
  decoder takes (`decode.rs:68`).

Others were met while modelling. They are the exceptions that properties name, or
are plain from the code and need no search:

- An entry that a delayed Request1 put back to Handshaking (`server.rs:249`) never times
  out and is never announced gone, and so are entries that never became Connected
  (`server.rs:529`); they fill the table. `EveryConnectionEnds` excepts the former.
- `server.rs:32` calls `CONNECTION_TIMEOUT` the "Connection inactivity timeout."; ACKs and NACKs
  do not count as activity (`server.rs:290`-`326`), so a client that takes what it is sent
  and says nothing for 20 s loses its entry, with the frames that wait there
  (`server.rs:529`). `AllDelivered` and `RepeatedIsAcknowledged` except an entry that was removed.
- MAX_CONNECTIONS ("Maximum players per server instance.", `server.rs:30`) is tested by
  Request1 only; Ping and Request2 make entries regardless.
- A client process that reconnects before its old entry times out inherits the
  entry (`server.rs:263`): its first datagrams pass for repeats, a partial of its
  predecessor may be completed with a part of its own, and its first payload does not
  carry order index 0. `fresh` in the conditions of `ReliableSend` and `ReliableReceive`
  excepts it.
- A frame that used up its retries is dropped and the connection kept (`server.rs:538`),
  where `server.rs:39` says "before dropping the connection".
- All parts of a split payload carry one reliable index (`server.rs:488`; `packet.rs:603`
  says "caller assigns per-frame"). A client that discards frames by reliable index would
  never put such a payload together.
- A datagram that is a repeat is not acknowledged (`server.rs:345`): whoever lost the ACK
  repeats it for ever, unless a later datagram's ACK, which names all ranges, arrives.
  `RepeatedIsAcknowledged` excepts lost ACKs.
- Payloads are handed up in the order in which they become whole (`server.rs:364`); the
  buffer of `connection.rs:59` is never used. Ranges are not coalesced
  (`connection.rs:145`).
- `/stop` (`README.md`: "Stop the server") ends the console task and not the server
  (`main.rs:502`). So does every command whose message contains "Stopping" (`main.rs:532`):
  `/kick Bob Stopping` is the last line the console reads. `SaysStopping` names them.
- `README.md:84` says of `/time set <value>` "Set world time"; the command answers and sets
  nothing (`commands/src/lib.rs:251`), and no other command changes the game either:
  `RunCommand` leaves the clock as it is. `/list` says that there are no players while the
  console's own `list` counts them (`main.rs:505`). `/tp x y z` takes `x` for the player.
- The permission test of `execute` has an empty body (`commands/src/lib.rs:689`): whoever
  executes, executes anything.
- `execute` lower-cases a label and compares it with names as they were registered
  (`commands/src/lib.rs:672`): a command registered under a name with capitals cannot be
  run by it. Of two commands with one alias either may be run, as the map has no order
  (`commands/src/lib.rs:677`). `RegisterKeepsLabels` excepts an alias that the new command
  shares.
- An empty word in quotation marks is no argument, and what follows it moves up
  (`commands/src/lib.rs:370`); a mark left open is closed by the end of the line.
- `pr_body.md:30` says "20+ built-in commands"; there are 17.
- At the end of its input the console reads for ever without waiting (`main.rs:494`).
- A batch that is read before its Connected event was handled is dropped
  (`main.rs:415`). A second Connected event adds a player under an id that the next
  session finds taken (`main.rs:256`; see `SessionsArePlayers`).
- `main.rs:427` says "Send chunks after login complete"; `should_send_chunks` is overwritten by
  each packet of a burst (`main.rs:307`), so a packet after the last one of the login takes
  the columns away. `ChunksAfterEntry` says when columns may come, and not that they do.
- `README.md:16` says "chunk loading on player move", `PROGRESS.md:131` "Chunk streaming based on
  player position and view distance"; a move asks for no columns (`session.rs:249`), and
  the radius is 2 whatever the client was told (`main.rs:439`).
- `chunk.rs:8` and `decode.rs:6` take the VarInt functions from modules of the crate that do not
  have them; they are read as those of `crates/nbt`.
- `batch.rs:12` says "[u16 BE len]"; the length is a VarInt (`batch.rs:38`).
- The MTU that a Request1 is answered with is the length of the probe and 10 ("incl
  overhead", `packet.rs:336`; the headers of IP and UDP are 28, and the 18 bytes read before
  are taken off). Datagrams are filled up to it as if it did not include them
  (`server.rs:404`, `452`), so a full one is ten bytes longer than the probe that came
  through. `HandshakeAgrees` and `PayloadCarried` speak of the MTU, not of the probe.
- Datagrams are filled up to 576 bytes whatever was agreed (`server.rs:404`), where
  `connection.rs:51` says "MTU size confirmed at connection establishment.".
- A client of another version is answered with packet 0x15, which `packet.rs:26` names
  DISCONNECTION. An IPv6 address is written as four zeros and its port, and a Request2 that
  names one is dropped (`packet.rs:264`).
- Columns and updates are queued without the 0xfe frame (`main.rs:161`, `216`, `346`, `392`).
- A Login body too short for a version is let in (`session.rs:154`).
- A palette index is cut to 16 bits (`world/src/lib.rs:179`); `get_block` of a column that is
  not there reads air (`world/src/lib.rs:544`).
- The TimeUpdate of a tick made for an event is dropped (`main.rs:264`, `360`, `402`), and a
  client is told noon when it enters (`session.rs:203`). `QuietShowsTime` bounds both.

## What is not modelled

- The byte layouts of the login packets, NBT tags, 64-bit VarInts, and values of 2^31 and more (TLC's numbers end there): pure encoders. Session
  and the RakNet state machines name packets and carry their fields.
- The noise generator: to the proofs about `World` it is any generator.
- Of commands: the wording of messages, usages and permissions, which nothing tests;
  `parse_coord` and `parse_target`, which only tests call; white space other than blank and
  tab, which the parser also separates at.
- The error of a place outside 0..255, which `main.rs:383` drops: the world is left as it
  is, as in `World`.
- Configuration (read once), ECS (used by no other crate's source), plugin API and
  network tools (empty).
- Code that nothing calls: `RecvQueue::drain`, `ordered_backlog`, `sequence_indices`,
  `Inner.next_split_id`, `remove_session`, `get_session`, `SubChunk::with_terrain`,
  `validate_break`, `validate_place`, `split_into_frames`, `encode_empty_subchunk`, and the game events that the server never makes
  (leave, move, interact, chat, command).
- The u24 wrap of datagram numbers, 2^24 datagrams away.

## Plan

Done: the table, both halves of reliable transport with `OrderedChannel`, the tasks and
locks, the session, the world with `BlockMap`, the clock with the console and its
commands, the handshake and the path of a column over the wire; proofs of every safety
property for all of them.

`ConnectionTable` and `ServerTasks` meet by assumption and guarantee: RakNet in `ServerTasks`
announces a payload only of an address that was announced before (`GamePacket`), which is what
`PacketsFollowConnected` proves of `ConnectionTable`; `BatchesFollow` and `DropsOnlyBeforeConnect`
rest on it.

Next, in this order:

1. The two composed over the two channels in one module, so that a demoted or
   reconnecting entry is followed into the sessions.
2. The layouts of the login packets, and 64-bit VarInts.
