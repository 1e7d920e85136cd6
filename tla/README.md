# Verification of the Aleph One network game

Aleph One is the engine of the Marathon games; this repository adds a build for web browsers
(`src/wasm`). Most of it is sequential code over large data: rendering, sound, file formats, a
deterministic simulation. What decides whether a game between several machines works at all is three
pieces of it, and these are what this project models, checks with TLC and, in part, proves with
TLAPS:

- **gathering** (`Source_Files/Network/network.cpp`, `network_dialogs.cpp`): one machine collects the
  players of a game over TCP, and all must start with the same list of them;
- the **star protocol** (`Source_Files/Network/network_star_*.cpp`): every machine runs the same
  simulation, and they stay the same game only if every machine feeds it the same input of every
  player for every tick. Inputs travel in datagrams that are lost, late, repeated or reordered,
  players fall silent or leave, and nobody wants to wait for the slowest;
- the **browser relay** (`wasm/relay/server.js`) and the pages' network layer over it
  (`wasm/config/net_relay.cpp`): browsers have neither TCP nor UDP, so a server carries both between
  the members of a room.

Contents: [the system](#the-system), [modules and code](#modules-and-code), [runs](#runs),
[bounds](#bounds), [fairness](#fairness), [proofs](#proofs), [findings](#findings),
[hazards without a property](#hazards-without-a-property), [not modelled](#not-modelled),
[plan](#plan).

## The system

### The star protocol

A game is *gathered* by one machine and joined by others over TCP (`network.cpp`). When a level
starts, `StarGameProtocol::Sync` starts the hub on the gatherer's machine, or on a standalone
server, and a spoke on every player's machine. From then on they talk in datagrams only.

| component | state | operations | where |
|---|---|---|---|
| Star hub | per player: connection, address, acknowledgement, flags queue, net-dead tick, time last heard; common: disposition, reflected-flags and send-time queues, smallest incomplete / unsent tick, laggards | packet handler (identification, game data), `hub_tick`, `make_player_netdead`, `send_packets`, `hub_cleanup` | `network_star_hub.cpp` |
| Star spoke | outgoing and unconfirmed flags queues, smallest unreceived tick, its own view of who is connected and until when, action queues of the local game, timing adjustment | packet handler, `spoke_tick`, `spoke_cleanup` | `network_star_spoke.cpp` |
| Networked game | which of the two run here, the topology with `net_dead` | `Sync`, `UnSync`, `PacketHandler`, `make_player_really_net_dead`, the local hand-over between hub and spoke | `StarGameProtocol.cpp` |
| Tick-based queues | read and write tick, storage | enqueue, dequeue, peek, set | `TickBasedCircularQueue.h` |
| Action queues | per player, read and write index, zombie | enqueue, dequeue, count, peek, modify | `ActionQueues.cpp` |
| Timer tasks | tasks with period and drift, one mutex | run due tasks, catch up when late | `mytm_sdl.cpp`, `mytm_wasm.cpp` |
| UDP transport | socket, receiving thread | send; receive and call the packet handler under the mutex | `network_udp.cpp` |

Interaction. The main thread reads the keyboard into the spoke's outgoing queue through
`spoke_tick` (a timer task) and plays from the action queues. The hub's and the spoke's packet
handlers run on the receiving thread. The timer tasks and the packet handlers all run under the
`mytm` mutex (`mytm_sdl.cpp`, `network_udp.cpp:82`), and in the browser there is one thread: a
handler or tick is therefore atomic for the others, and what interleaves is *which handler runs
next, on which machine, with which datagram*. On the gatherer's machine the hub and the local spoke
write each other's frame into a local buffer, handed over at the end of the handler that wrote it.

What is hard: the two ends of each link forget what they think the other has; a queue is trimmed as
the slowest allows; a player's death is dated by the hub and learnt later, in the middle of a
stream of flags that carry no names; made-up flags for a laggard race with his real ones; several
players can die in one tick; hub and spoke on one machine stop at different times.

What makes it correct:

- all machines play the same flags (*lockstep*), and nothing that has been sent is changed;
- the hub waits for exactly the players it must wait for, keeps what it may have to send again, and
  never meets one of its own asserts (they are always compiled in, `cseries.h:39` defines `DEBUG`);
- each end of a link never believes the other to have more than it has;
- queues never hold more than they can;
- silent players leave, a slow one does not stall the majority, the rest of the game goes on, and a
  game that ends has reached everybody.

### Gathering

| component | state | operations | where |
|---|---|---|---|
| Gatherer | for each connection a `Client` with its state (`_connecting` ... `_awaiting_map`, `_ingame`), `topology`, `next_join_attempt`, the dialog's list and PLAY button | `NetCheckForNewJoiner`, `gathered_player`, autogather, `StartGameHit`, `NetCancelGather`, message handlers, `NetProcessMessagesInGame` | `network.cpp`, `network_dialogs.cpp` |
| Joiner | `netState`, `handlerState`, its topology and identifier | `NetUpdateJoinState`, `NetReceiveGameData`, message handlers | the same |
| Message channels | queues of messages in and out, connected or not | `pump`, `dispatchIncomingMessages`, `dispatchOneIncomingMessage`, `receiveSpecificMessage` | `CommunicationsChannel.cpp` |

Each dialog calls its network code from an idle proc; a joiner and the gatherer are different
programs that only share two ordered streams of messages. What is hard: a joiner may leave, and the
user may start or cancel, in any state of any handshake; the answer of a joiner may come long after
the question; handlers look at a state that two state machines (network and dialog) both keep; a
joiner must see every change of the topology, but only takes one while it waits.

It is correct when nobody is added twice or lost, the dialog's list, the clients and the topology
agree, everybody who gets into the game starts with the gatherer's topology, and that topology does
not change afterwards.

### The browser relay

| component | state | operations | where |
|---|---|---|---|
| Relay | rooms by code, members by number, streams between two members, sockets, connections for each address, closing sockets, public listing | upgrade, `HELLO`, datagrams, streams, publishing, `cleanup`, heartbeat, HELLO timer, traffic limits, shutdown | `wasm/relay/server.js` |
| Browser network layer | status, member number, table of streams with what has come, next stream number | WebSocket events; `js_net_open_stream`, `js_net_stream_send`, ... for the engine | `wasm/config/net_relay.cpp` |

The relay is one thread that runs one event handler at a time; so is a page. What is hard: a socket
that has been told to close goes on delivering messages until its close event; a room whose creator
has left lingers while its code is given to another; numbers of members, and with them of streams,
are used again; a socket may hang without anybody noticing; every buffer and every count has a
limit.

It is correct when a room's data reaches its own members only, the handlers of a connection and the
room agree on who is in it, no stream outlives one of its ends, streams deliver in order, counters
count what they should, and a closed room is empty in the end.

### Around it

| component | state, and what is hard | correct when | here |
|---|---|---|---|
| Pinger, connect pool, service location | outstanding requests, threads, timeouts | answers are matched to their requests | planned |
| Standalone hub program | waiting for a gatherer, reload after a game | a hub is ready again after any game | planned |
| Input recording and replay (`vbl.cpp`) | heartbeat, recording queues | a replay plays what was recorded | planned |
| Game state machine (`interface.cpp`) | menu, game, epilogue | every start is followed by one end | later |
| Sound manager | players, sources and their life cycle, shared with the mixer's thread | a source plays for one sound at a time | later |
| Metaserver client, HTTP, port mapping | outside services | - | no |
| Simulation, rendering, files, Lua, XML, dialogs, tools | sequential code over large data | - | no |

`PROJECT.json` lists every component with its files.

## Modules and code

```
StarTopology            players, ticks
  StarHub               network_star_hub.cpp       StarHubProofs    theorems about it
    StarLateFlags       its queues of late flags   StarLateFlagsProofs
  StarSpoke             network_star_spoke.cpp
  StarGame              hub + spokes + datagrams   StarGameProofs   the hub among spokes, lockstep in company
    StarTiming          timing adjustments         MCStarTiming     values for a run
                                                   StarSpokesProofs links, queues, asserts of the spokes
      implements                                   StarPlayProofs   machines alone, the refinement
  LockstepGame          abstract specification     LockstepGameProofs

Relay                   server.js
  RelayNet              net_relay.cpp over it      RelayNetProofs   the relay, and with its pages
                                                   MCRelayNet       values for a run

Gathering               network.cpp,               GatheringProofs  theorems about it
                        network_dialogs.cpp,
                        CommunicationsChannel.cpp
```

**StarHub** has one variable for each piece of the hub's state, named after it. The flags
themselves are left out: what counts is for which ticks they are there, and whether the hub made
them up. A tick-based queue is its read and write tick. Clocks are kept as the time since an event,
cut off where the code no longer tells the difference.

| action | code |
|---|---|
| `ReceiveIdentification` | `hub_received_identification_packet` |
| `ReceiveGameData` | `hub_received_game_data_packet_v1` with `player_provided_flags_from_tick_to_tick`, `player_acknowledged_up_to_tick`, `send_packets` |
| `HubTickBegin`, `ScanSurvivors`, `ScanNetDead`, `BookNetDeath`, `HubTickEnd` | `hub_tick`, cut at its loop over the players, because `make_player_netdead` is called from it several times before anything is sent |
| `HubCleanup`, `HubCleanupEnd` | `hub_cleanup`, which waits until every spoke has the last tick |

`scan`, `dying` and `suspended` are the loop's program counter and the call stack; while `scan` is
set no other action runs, as the mutex has it. A failed assert ends the program: its line goes into
`failedAsserts` and nothing is enabled after. `Next` lets a spoke send any acknowledgement and any
range of ticks that a spoke could send at all (`SpokeSends`): not more than was sent to it.

**StarSpoke** has the same for the spokes, every variable a function of the player.

| action | code |
|---|---|
| `SpokeReceives` (`ReceiveNoFlags`, `ReceiveFlags`) | `spoke_received_game_data_packet_v1`, with the loop over the packet's ticks in closed form |
| `SpokeTick` (`ConnectedTick`, `CutOffTick`) | `spoke_tick` |
| `SpokeGivesUp` | `spoke_tick` when the hub was silent for too long: `spoke_became_disconnected` |
| `ForgetConfirmed` | the main thread's use of the unconfirmed flags |
| `GameAdvances` | the game takes a tick from every action queue |
| `SpokeCleanup` | `spoke_cleanup`, with its last packet |

Flags travel without names: a packet is a list of ticks, each a list of flags for the players the
*reader* believes to be in the game. A frame of the model says whose flags it holds, and a spoke
that would read others records line 577 ("OOS is likely") in `spokeFailures`. So the model sees
exactly the confusion the wire format makes possible.

**StarGame** puts them together: the hub's frame is computed from its state (`HubFrame`, from
`send_packets`), with bandwidth reduction or without; each link
keeps the last `InFlight` frames, each of which may be delivered any number of times, in any order,
or never. The local spoke's frames take their turn before anything else happens. `HubIsAmongSpokes`
says that every step of the hub in this company is a step of `StarHub`'s own specification, so
what holds of `StarHub` alone, the theorems included, holds of it here. It is checked, and proved.

**StarLateFlags** adds to the hub what it keeps of a laggard's own flags when they come after it has
made some up: a second queue for each player (`sLateFlagsQueues`), of which each further made-up tick
uses the older half. Only its ticks are kept. Every action is one of `StarHub`'s with what the same
code does to these queues: `LatePacket`, `LateNetDeath`, `LateTickEnd`, and `LateElsewhere` for the
steps that leave them alone. The asserts on the queues (lines 815, 826, 835, 844, 851) record
themselves in `lateFailures`.

**StarTiming** adds to the game how the hub comes to ask for timing adjustments. `StarGame` lets it
ask anybody for anything at any time. Here every tick heard of for the first time puts its arrival
offset into the player's window (`Hears`); when the window is full its n-th smallest element is asked
for, in every packet (`AsksAreSent`), until an acknowledgement shows that one of those packets has
arrived (`Seen`), and the window starts afresh. Spokes adjust to it as in `StarSpoke`, so that it is
a closed loop.

**LockstepGame** says what a networked game is for in two actions: `Settle` (somebody decides the
next tick, once) and `Play` (a machine plays some of what is settled). The refinement mapping
(`Settled`, `Played`) reads *settled* off the hub's completed ticks and *played* off what each spoke
has taken into its action queues.

**Relay** has one variable for each piece of the server's state. A WebSocket connection is used
once; a room object is named by the connection that created it. A handler sends at most one frame to
each socket, so what a handler sends is a function from recipients to frames (`Post`), and
`SocketsAfter` says which sockets it closes, those whose buffer is full included.

| action | code |
|---|---|
| `Upgrade` | the HTTP upgrade with its limits, `wss.on('connection')` |
| `Receive`: `Hello` (`CreateRoom`, `JoinRoom`, `TurnAway`), `Dgram`, `OpenStream`, `StreamFrame`, `Publish`, `BadFrame` | `ws.on('message')` |
| `Throttle`, `HelloTimeout`, `HeartbeatTimeout`, `Shutdown` | the traffic limit and the timers |
| `SocketCloses` | `cleanup`, on the close event |
| `TakeFrame`, `HangUp` | the network's and the client's part |

`Relay` on its own lets every client send any frame at any time. **RelayNet** puts the pages over
it: `Connect`, `PageReceives` (the events), `PageOpens`, `PageSends`, `PageClosesStream`,
`PageSendsDgram`, `PageLists` (the engine's calls), `PageCloses`; `up` is what is on its way to the
relay, and `RelayReceives`, `RelayNotices`, `RelayTimers` are the relay's actions on it. Every step
of `RelayNet` is a step of `Relay` or leaves its variables alone (`PagesAreClients`), so that what is
proved of `Relay` holds of it. Chunks and streams remember who
they are from, which the code does not know, so that the properties can talk of mixed-up data.

**Gathering** keeps the gatherer's state and each joiner's in a record, because an idle proc does
many things in one step: it accepts a connection, pumps and dispatches every channel, drops the
clients that have gone, shows one and gathers others. Each part is an operator from record to record
(`Visited`, `Shown`, `Autogathered`, `HandleAcceptJoin`, ...), and a loop of the code, over clients
(`ForEach`) or over the messages of one of them (`Dispatched`, `JoinerDispatched`), is a recursive
function that applies them in its order.

| action | code |
|---|---|
| `Idle` | `GatherDialog::idle`, `NetCheckForNewJoiner`, the gatherer's handlers |
| `GatheredPlayer` | `gathered_player`, `NetGatherPlayer` |
| `StartGameHit` | `StartGameHit`, `NetDoneGathering`, `NetStart`, the distribution of game data, `NetSync` |
| `CancelGather`, `GathererInGame` | `NetCancelGather`, `NetProcessMessagesInGame` |
| `JoinerJoins`, `JoinerWaits` | `NetUpdateJoinState`, before and after it was gathered |
| `JoinerStartsUp`, `JoinerInGame` | `NetReceiveGameData`, `NetProcessMessagesInGame` |
| `Connects`, `JoinerLosesConnection`, `JoinerGivesUp` | connecting, the connection's end, the user or a timeout |

A step may find any number of the messages that are under way, so two joiners' messages come in any
order, and each direction's own in the order they were sent.

## Runs

| run | question | result |
|---|---|---|
| `hub_trio` | the hub: types, order of the queues, seven of its asserts, the meaning of the disposition bits, what must be kept for sending again, that nothing sent is changed; do silent players leave, does a majority stall (at a tick that nobody lacks who has left): 3 players, pregame and game, a queue of one tick, made-up flags, several deaths | holds |
| `hub_dedicated` | the standalone hub with three spokes, of whom any may lag or drop out: is the reference player in the game, do late flags keep step with the flags in use, is everybody who owes some a laggard | holds |
| `hub_lost_together` | is only what was sent ever acknowledged (assert, line 963) | violated |
| `hub_standalone` | is only an awaited acknowledgement ever booked (assert, line 959), standalone | violated |
| `hub_late` | do late flags fit their queue (comment, `network_star_hub.cpp:833-834`) | violated |
| `game_pair` | the whole game of two and a zombie with all kinds of loss, silence and its end, and with timing adjustments: lockstep, the links, the graceful end, that the hub stays within its specification, that an adjustment is asked for until it was seen, and that it all implements `LockstepGame` | holds |
| `game_trio` | three players, bandwidth reduction, made-up flags, a death, action queues with room for one tick: of all in company: lockstep, nobody reads the wrong flags, deaths reach the topology | holds |
| `game_live` | does everybody play on although datagrams are lost, through the lulls that follow, up to a graceful end of the game: two ticks, with nobody allowed to give up | holds |
| `game_alone` | are only the dead filled in as dead (comment, `network_star_spoke.cpp:425-427`) | violated |
| `relay_rooms` | browsers and relay: do handlers and rooms agree, does data stay in its room, do streams deliver in order, without a gap, and never stay half open, does the engine send what the relay accepts, are counters right, do closed rooms empty | holds |
| `gather_dialog` | a gatherer and two joiners who come and go in any state: do list, clients and topologies agree, does everybody start alike, does nobody wait for ever | holds |
| `gather_ahead` | is the topology settled when the game has begun (assert, `network.cpp:2710`), if the user does not wait for an answer | violated |

Deadlock is not checked: a game comes to an end (the bound on ticks, the shutdown, a failed assert;
connections used up; a dialog left), and then nothing is left to do. That it does not stop *before*
is what `SilentPlayersLeave`, `MajorityNeverStalls`, `EverybodyPlaysOn`, `EverybodyFinishes`,
`ClosedRoomsEmpty` and `WaitersGetIn` are about.

Every property of a passing run has a mutant in `PROJECT.json`: a plausible bug (the definitions
named `Faulty...`, written next to the right ones) with which TLC finds the property violated under
the same configuration.

## Bounds

| bound | what it stands for | values, and why they are enough |
|---|---|---|
| `NumPlayers` | at most 8 in the code | 2 and 3. Two show each link; the third is what a majority, two deaths in one tick and "somebody else is still there" need. The theorems hold for every number. |
| `Horizon`, `StartingTick`, `PregameTicks` | the length of a game | 1 to 4 ticks. The protocol looks at differences of ticks only; with 2 game ticks one can be acknowledged while the next is open, with a pregame tick before them. Where the last three ticks of an incremental update matter (`game_alone`) it is 4. |
| `QueueSize`, `OutgoingFlagsQueueSize`, `ActionQueueSize` | 150 ticks (`kFlagsQueueSize`), 15 ticks, and what the game's queues hold | small enough to fill in `hub_trio`, `hub_dedicated` and `game_trio`; larger than the horizon where filling is not the question. In `hub_late` the queue holds as many flags as a player may be silent for, as it does in the code (150 and 150). |
| `PregameTicksBeforeNetDeath`, `InGame...`, `SendPeriod`, `Recovery...`, `Minimum...` | preferences, in ticks | 1 or 2: counters reach their limits at once, and a silence of any length is a silence of that many ticks. `SendPeriod` 2 in `game_pair`: packets for every second tick. Limits of 2 in `game_live`, so that a lull can pass without anybody giving up. |
| `RecoveryTicks`, `IncrementalTicks` | ticks in a large update (four times the latency, what fits in a packet) and in an incremental one (3) | 1 incremental tick in `game_trio`, so that it is less than what is outstanding; 3 in `game_alone`. |
| `InFlight` | datagrams that may still arrive | 1: the last frame of each side, any number of times, interleaved with all else. A frame not taken out in time is lost. `StarGame` was also run once with two players, 2 frames and 3 ticks, where a newer frame overtakes an older one: 3 minutes, no error. `AsksAreSeen` is about links that keep their order: a late packet from before a request takes it back on the spoke (line 411). |
| `PostGameTicks` | where a game may end | both ticks of `hub_trio`, the last in `game_pair` and `game_live`; never in `game_trio`, which has enough states without |
| `MayFallSilent`, `MayMissTheHub` | who may be cut off long enough to be dropped | everybody in `game_pair`, both ways (a spoke always hears the hub of its own machine); in `game_trio` one player whom the hub may drop, and another who may give up the hub (with everybody falling silent and nobody giving up it has 1.2 million states and no error, run once); nobody in `game_live`. Of the others the hub hears before their limit has passed (`HeardInTime`), and datagrams between them are lost only as long as the next one is sent before that (`HubSendsAgain`, `SpokeSendsAgain`): a wire good enough for the limits, which is the user's part of the bargain. With limits of one or two ticks nearly every behaviour would otherwise be one of people dying. A spoke whose machine has left is not waited for. |
| `Leavers` | who may leave before the end | nobody but in `game_alone` |
| `Adjustments`, `InGameWindowSize`, `...NthElement` | timing adjustments; windows of 15 offsets before the game and 150 in it, of which the third or the sixth smallest is taken | every offset two players can have, in `game_pair`, with windows of one offset: the hub asks as often as it can. (Offsets are cut to 8 bits on the wire, which they never exceed here.) |
| `MostFlags` | flags in one packet, 15 | 2 in `hub_dedicated`, where a packet can bring late and new flags; 1 in `hub_late`, so that it takes several packets |
| `GameReaders` | whose simulation advances | one remote player in `game_trio`, where full queues matter; elsewhere the action queues have room for all ticks |
| `Hosts`, `Guests`, `AddressOf` | who may create a room or join one, from where | three pages, two of them at one address; one may do both, so that rooms compete for the one code |
| `MAX_...` of the relay | the server's limits | each is met: two members, one room, one stream in a room, two connections from an address, two frames in a buffer and three in all buffers together |
| `SequenceSpan`, `StreamId` | `2^20`, and the stream numbers in use | 4; the three numbers that member 2 gives its first streams, 9 to 11, which come only from pages that are member 2 of some room |
| `MaxCalls`, `MaxUnderway`, `MaxChunks` | what the engine does on each page, frames on their way up, chunks sent into one end | 3 calls on the page that is host or guest, 1 on the other guest and none on the host (which comes and goes all the same); 1; 3. So the one page sends two chunks as a guest or three as a host, into buffers that are full with the second frame: order and gaps can be seen. Run once without error: two pages with 3 and 4 calls, two frames under way each (2.5 million states) |
| `MayBeThrottled`, `MayAnswerLate` | who may exceed the traffic limits; whose answers to pings may come too late though the page is alive | one page |
| `NumJoiners`, `MaximumPlayers` | joiners that come; 8 | 2 and 3. Run once without error: 3 joiners (the safety properties, 1.7 million states), and 3 joiners one of which lacks a capability |
| `Ungatherable` | joiners whose capabilities do not suffice | nobody in the runs kept |
| `Overbooks`, `StartsAhead` | what the user does that the dialog should not allow: gather more than there is room for, start while an answer is awaited | neither in `gather_dialog`, both in `gather_ahead` |
| `0 .. 2` in `Arrivals` | messages of one joiner found in one step | a joiner never has two under way (`GatheringTypeOK`, proved for every number of joiners), so that nothing is left out |

Integers do not wrap: ticks are 32 bits at 30 a second, and a page would have to open `2^20`
streams (nothing keeps it from that) before their numbers ran into the next member's.

## Fairness

`FairSpec` of the hub: weak fairness of `HubTick` and of `HubCleanupEnd`. The tick task is periodic
until removed, and the loop of `hub_cleanup` yields and looks again. Nothing is assumed of the
spokes: `SilentPlayersLeave` and `MajorityNeverStalls` hold whatever they do.

`FairGameSpec` adds for each machine that its tick task and its main thread run again and again,
that a local frame is handed over, and that of the frames a side goes on sending some arrive. These
are strong fairness: a tick waits for the end of another's turn, a receive action is disabled each
time the datagram is lost (`DatagramLost` is an action there) and enabled again by the next one. A
player whose tick either works or gives up has fairness of the disjunction only, so that nobody is
forced to give up. In `game_live` nobody does give up: the limits are two ticks, and the wire, which
may lose any datagram at any time, does not lose the one after which it would be too late
(`HubSendsAgain`, `SpokeSendsAgain`). What must then be shown is that there always *is* a next one. After
a loss both sides have nothing new to send, and the game goes on only because each repeats itself in
the lull: the spoke every `SpokeRecoverySendPeriod`, the hub every `RecoverySendPeriod`, also in
`hub_cleanup`, after the spoke of the gatherer's own machine has left and while others still lack the
last tick. With a spoke that sends only what is new, with a hub that never repeats itself, or with one
that stops doing so in `hub_cleanup`, TLC finds the property violated. The conclusion,
`EverybodyPlaysOn`, leaves open one case: that the gatherer ends the game without waiting for the others.

`FairNetSpec` has weak fairness of `Disposes` for each connection: the heartbeat's interval timer
terminates a socket that does not answer, and a socket that is closing gets its close event, from the
client's answer or from the terminate that `closeWithDeadline` has set. Nothing is assumed of the
pages.

`FairGatheringSpec` has weak fairness of `SomebodyIdles`: as long as an idle proc of somebody has
something to do, one runs, and what is under way arrives. The user need not do anything, and may
leave or cancel at any time.

## Proofs

| theorem | says |
|---|---|
| `HubSafe` | `HubInvariant` is an invariant of `StarHub`, up to the moment a standalone hub loses its last two players at once (`HubOrNobody`) |
| `HubTypeCorrect`, `HubQueuesLineUp`, `HubDispositionIsExact`, `HubAssertsHold` | its conjuncts, which the runs check; all but the type for as long as a standalone hub is not deserted (`NotDeserted`). `HubAssertsHold` is about the asserts in lines 959, 983, 994, 1067, 1089, 1097 and 1109, not about 963 and 988 |
| `HubKeepsWhatItMayResend` | a consequence: nothing that may be sent again is discarded |
| `HubSentTicksStand` | an action property: no step changes what was sent |
| `HubReferenceIsInTheGame` | the reference player has not left, at the gatherer's hub and at a standalone one |
| `HubStopsLast` | a hub that has stopped by itself has nobody left in the game, or everybody left has all of it |
| `GameSafe` | `GameInvariant` is an invariant of `StarGame` |
| `GameIsAmongSpokes` | every step of the game is a step of the hub's own specification, or leaves the hub alone |
| `GameKeepsWhatItMayResend`, `GameSentTicksStand` | two of the hub's theorems, of the game |
| `GameStaysInLockstep` | `LockstepInvariant` is an invariant of `StarGame` |
| `GameIsInLockstep` | its consequence: a machine that knows of somebody else in the game plays for every player what the hub has settled |
| `LateHubIsHub` | every step of `StarLateFlags` is one of `StarHub` |
| `LateFlagsSafe` | `LateInvariant` is an invariant of `StarLateFlags` |
| `LateFlagsAlwaysFollow`, `LateFlagsAreAlwaysLaggards` | its conjuncts, which `hub_dedicated` checks |
| `SpokesSafe` | `SpokesInvariant` is an invariant of `StarGame`: the two ends of each link, and the frames between them |
| `LinksKeepPromises`, `DeathsAreKnown`, `EverybodyHasFinished` | its consequences, which `game_pair` and `game_trio` check |
| `MachinesStayInStep` | `MachinesInvariant` is an invariant of `StarGame`: the queues of a machine and its asserts |
| `SpokesStayInStep`, `SpokesInCompanyStayInStep` | no spoke reads other flags than it should, without bandwidth reduction (`SpokesInStep`), or with it in company (`InStepInCompany`, which `game_trio` checks) |
| `MachinesStayFit`, `QueuesHoldInCompany` | the spokes' queues never exceed their capacity; the action queues of machines in company do not either |
| `GameIsTyped` | `GameTypeOK` is an invariant of `StarGame`, in a game no longer than an action queue |
| `RoomyGameIsInLockstep`, `GameThatKeepsUpIsInLockstep`, `ShortGameIsInLockstep` | `Lockstep`, of machines left alone too: each under a weaker assumption on variables, or a stronger one on constants, than the one before |
| `LockstepIsTheLockstepGame` | whoever keeps `Lockstep` implements `LockstepGame`, step by step |
| `GameThatKeepsUpIsTheLockstepGame`, `ShortGameIsTheLockstepGame` | hence the protocol implements it |
| `TimedGameIsGame` | every step of `StarTiming` is one of `StarGame`: the windows only watch the game |
| `TimedGameIsInLockstep`, `TimedGameIsAmongSpokes`, `TimedGameKeepsPromises`, `TimedShortGameIsTheLockstepGame` | the game's theorems, of the game with timing adjustments |
| `AsksAreAlwaysSeen` | `AsksInvariant` is an invariant of `StarTiming` on links that keep their order, and `AsksAreSeen` an action property of it: with it, all that `game_pair` checks is proved |
| `MachinesAgreeAlways` | in the lockstep game two machines always agree as far as both have played |
| `RelayAgrees` | `RelayInv` is an invariant of `Relay` |
| `MembersAlwaysThere`, `RoomsAlwaysHaveTheirCreator`, `StreamsAlwaysJoinMembers`, `FramesAlwaysStayInTheRoom`, `ConnectionsAlwaysCounted` | its conjuncts, which the runs check |
| `PagesAndRelayAgree` | `NetInv` is an invariant of `RelayNet` |
| `PagesAreClients` | `RelayNet` implements `Relay` |
| `PagesStayTyped`, `FramesAlwaysAccepted` | two consequences of `NetInv`, which `relay_rooms` checks |
| `StreamsStaySound` | `StreamsInv` is an invariant of `RelayNet`: what both ends, the relay and the frames between them know of a stream |
| `StreamsStayInOrder`, `StreamsEndAtBothEnds` | its consequences `StreamsDeliverInOrder` and `NoHalfOpenStreams`, which `relay_rooms` checks |
| `GatheringIsInvariant` | `GatheringInvariant` is an invariant of `Gathering`, if nobody presses PLAY while an answer is awaited |
| `GatheringIsTyped`, `DialogsAgree`, `AcceptedPlay`, `WaitersAgree`, `TopologiesExpected`, `JoinersFound`, `PlayersStartAlike` | its consequences: all the invariants that `gather_dialog` checks |
| `TopologySettles` | an action property: the topology of a game that has begun does not change |

The hub's theorems hold for every number of players, every length of game, every queue size and
every setting, given `HubConstants` (the assumption in `StarHub`, which TLC evaluates in every run),
and for the gatherer's hub as well as for a standalone one. The gatherer's books its deaths one at a
time; a standalone one whose last two players go in one call of `make_player_netdead` books neither death
right and may fail an assert (`hub_standalone`), but then nobody is connected any more. The theorems
say that this is the only harm: `NobodyLeft` is what remains of the invariant from there on, and
`NobodyLeftStep` that no packet is booked, no flags are made up and no tick taken back in it. So
types, what is kept for sending again, what was sent, how the hub stops and the late flags have
theorems without exception. The game's theorems assume a local player (`~Standalone`), since
`StarGame` has the gatherer's hub. The environment is `SpokeSends`; that real spokes keep to it is
`GameIsAmongSpokes`.

The argument. None of the properties is inductive alone. That a queue can be trimmed up to where the
disposition has no bits needs the exact meaning of the bits; that the bits are right after a trim
needs the order of the queues; that a dying player's bits come out exactly needs to know that nobody
else is between two states (`LoopState`: the loop's program counter; only one player is being booked
as dead). Hence `HubInvariant == TypeOK /\ LoopState /\ QueuesLineUp /\ DispositionIsExact /\
HousekeepingAssertsHold`. `DispositionIsExact` is the heart: a bit is set below the smallest
incomplete tick iff the player has not acknowledged it, and from there on iff his flags are missing.

The code's two loops over the disposition queue stop at the first tick that is still awaited. The
model says so by the set of ticks with no bits left, and the lemmas `AcknowledgedBooks` and
`ProvidedBooks` say what the two loops leave behind: the set is an interval from the read tick on
(`DownwardClosed`), since acknowledgements and flags are themselves given up to a tick. One lemma
for each action follows, one step for each conjunct, and `AnyStepInvariant` joins them.

`GameInvariant` is the hub's invariant and what a frame on its way promises: every frame to the hub
acknowledges at most what was sent to its spoke and offers ticks that the spoke's own queue still
holds or has held (`WiresSound`, `SpokesSound`), however late it comes. A hub that believes itself
to have more of a player's flags than he made would break it, so would a spoke that acknowledges
what it has not read. A spoke that is told that it is alone acknowledges by itself, which is why
`AloneIsSent` is needed: it is told so only when the ticks in question were sent.

`LockstepInvariant` is about the contents. A frame to a spoke holds, for a run of ticks without a
gap, what the hub has settled for them (`WiresDecided`); what is settled is never changed, neither
by a death, which is dated at the first incomplete tick, nor by real flags that come after made-up
ones (`HubMoves`, one lemma for each action of the hub); a spoke that is in company has taken every
tick below its first missing one, once, from such frames (`SpokesDecided`), and dates the deaths it
has learnt of as the hub has booked them. With bandwidth reduction a frame leaves out the reader's
own flags, which he then takes from his own queue: that these are the ones the hub has is the
spoke's half of the invariant. `InCompany` excludes the one machine for which it is false
(finding 3).

`LateInvariant` is the hub's invariant and, for each player, that what was read of his late flags is
not ahead of what was written, nor that of the flags in use. Why the asserts in 826 and 844 cannot
fail: a packet is taken only up to the flags in use, then *late* flags fill the queue up to exactly
there, and only after that new ones go into both (`LatePacketInvariant`). Whoever makes the two
differ is a laggard because flags are made up for laggards only, and counts as one until flags of his
are new, which empties the queue. The hub itself has one clause more than its properties need
(`EnqueuesFlags` in `GameDataInvariant`): which ticks a packet adds.

`SpokesInvariant` is what the two ends of a link owe each other. The hub's frames carry no names, so the
reader must expect the flags of exactly the players the frame holds; a frame lives on for as long as the
network likes, while players die at both ends. The invariant says of every frame (`FramesFit`) which
ticks it holds, whose flags in each tick, and which deaths it announces, in terms of what the hub has
settled *for those ticks*, which no later death changes; of every spoke, that for each tick it has yet to
receive its own view of who is in the game is the hub's as soon as a frame it may take says so
(`DeathsKnown`); and of every acknowledgement, on the wire or booked, that it is true (`AcksAreTrue`).
`EverybodyHasFinished` follows from it with `HubStopsLast`.

`MachinesInvariant` adds what goes on inside a machine: as long as it is in touch with the hub all its
action queues end where the frames go on (`QueuesAgree`), and its unconfirmed flags where its outgoing
ones do. Of the asserts on a packet's ticks all hold but the one in line 589, which can fail for a
machine alone, with its bandwidth reduced (`FailsOnlyAlone`; see below). `QueuesInvariant` bounds the
queues; `RoomWasTaken` says of the action queues that each tick a packet brought fitted when it was
taken.

A machine left alone fills in the flags of the dead by itself (lines 425-470 of the spoke), up to the
tick the *hub* has acknowledged. If all it was sent has been read, nothing can be filled in wrongly; if
its action queue was full when the last packet came, and the packet read in part, the rest would be
filled in although it was played (the wire's own version of finding 3). `Lockstep` of *all* machines
therefore needs room: `QueuesHaveRoom`, an assumption on the behaviour, that a machine in company has
space in its queues for what the hub has completed and the machine has not received;
`GamesKeepUp`, that the games leave as much space as the hub's queue holds ticks; or a game that is no longer than an action queue. The code's
queue holds half a minute of flags, the hub's five seconds, so that the assumption fails on machines
that have been stuck for most of a minute only. With bandwidth reduction, finding 3 remains.
`PlayInvariant` is what is added for it: how far a machine in company can lag behind what it has
acknowledged, and what an acknowledgement then says about what was read.

`MachinesAgreeAlways` rests on: what a machine has played is a prefix of what is settled, and two
prefixes of one sequence are prefixes one of the other. `LockstepIsTheLockstepGame` is the refinement:
by `HubMoves` a step of the hub only adds to what is settled, one tick at a time or several at once
(`Settle` takes a sequence of decisions); a step of a spoke adds to what one machine has played
(`MachinePlays`), by `Lockstep` after the step nothing but what was settled. No step does both.

The relay's theorems hold for every set of connections, addresses, codes and stream numbers, every
limit, and clients that send whatever they like (`RelayConstants`, evaluated by TLC in
`relay_rooms`). `RelayInv == RelayTypeOK /\ HandlersAgree /\` the five properties. What they lack for
induction is the other half of each handler's state: a connection has a room exactly when it has a
number, whoever has a room is in one that was created, under a code, by a connection of its own, and
has number 1 exactly in the room it created; and that creator is in it as long as it is not closed
(`HandlersAgree`). With it, that a code is not taken from a newer
room by the cleanup of an older one follows from *the cleanup that frees it is the creator's*, and
that a number given out again inherits nothing from *streams join members that are there*. The number
given to a newcomer is the least free one (`LeastNatural`, by well-founded induction on the naturals,
cited as a library fact about sets); that no two connections are counted as one needs the cardinality
theorems of the library.

`NetInv` says how a page and the relay stand to each other, with everything under way between them: a
page's number is the one the relay gave it, once the answer to its HELLO has come, and nothing but that
answer can be the first frame that reaches it (`PagesAgree`); every stream a page has, and every frame
under way about a stream, is between the two pages that the stream's number names, one of which is the
creator of the room (`EntriesSound`, `UpSound`, `DownSound`); a stream that is being opened
has a number that the relay does not have (`OpensAreNew`), because a page counts its streams and its
number is its own as long as it is there; and the members of a room that has closed are on their way
out (`ClosedRoomsClose`). `FramesAlwaysAccepted` follows, and `PagesAreClients`: the only clause of
`Relay` that pages could break is that a frame is one a client can send. The assumption `PageConstants`
has a page open fewer streams than there are sequence numbers, which the code does not
ensure (see [bounds](#bounds)).

`StreamsInv` is about one stream at a time: a number, the page that opens streams under it, and the
creator of its room, where no member number was used twice (`Stream`). `Begins`: nobody but the opener
knows anything of the stream before it is opened, the frame that opens it is the first of its frames
wherever it is under way, and news that the opener has left come after it, never before. `Ends`, for
each end: as long as the relay has the stream, it is open there, or being closed, or the socket is on
its way out; once the relay has forgotten it, it is open no longer than news of that are under way.
`Flows`, for each direction: the chunks an end has read, those on their way down to it, and those on
their way up from the other are numbered without a gap (`Carries`), up to what the sender has sent;
between the two wires chunks may be missing only once nothing more of the stream can come through
(`Flowing`), which is why a relay that drops a frame because a buffer is full or a socket is closing
cuts a stream off at its end and never leaves a hole. `Carries(wire, s, o, low, high)`: the chunks of `o`'s
stream `s` on the wire are those from `low + 1` to `high`, each once, in order.

The proof takes the steps apart by what the stream hears of them. Most steps leave everything the
invariant speaks of alone (`ElsewhereKeeps`); a call of an end puts a frame onto its wire; a frame that
the relay takes is refused, paired, forwarded, ended or dropped (`MemberFrame`), and that the pair it
makes or ends is this stream's and no other's uses `NetInv`; a page takes a frame in `PageReceivesStays`;
and when a member leaves, his streams go with him and the other ends are told (`LeavingKeeps`). A stream
begins when a stranger joins, with nothing of it anywhere (`StrangerComes`): this is where a number that
is used for the second time would fail. `StreamsStep` joins them.

The theorems about gathering hold for every number of joiners and every limit, whoever lacks a
capability and however many are gathered at a time (`GatheringAssumption`), under one more assumption,
`~ StartsAhead`: that the user does not press PLAY while somebody who was gathered has not answered.
The dialog does not keep him from it, and what then happens is finding 4; `TopologySettles` shows
that it is the only way to it, since nothing else ever changes the topology of a running game.
(`gather_dialog` keeps to the assumption too, `gather_ahead` does not.)

None of the invariants that the run checks is inductive. What they lack is the conversation: each
side acts on what it last heard, and both streams between them hold what was said since.
`GatheringInvariant` goes through it joiner by joiner (`Talks`). For one whose end is open there are five
parts, in the order of the handshake (`Linked`): `Greets`, `Introduces`, `Accepts`, `Waits`, `Plays`.
Each says what may be under way in both directions together, given what the gatherer
takes the joiner for (`gatherer.clients`) and what the joiner is. So at every moment the one message
that can arrive next is one its reader expects: a topology finds the joiner waiting, because before the
first one come the request to join, its answer, and the session (`Announces`, `HasSession`). The
last topology under way, or the joiner's own if there is none, is the gatherer's (`Updates`), and
the one that starts the game is followed by the end of the game data and by nothing else (`Starts`).
For one whose end is closed the gatherer may still believe anything that fits what the joiner said last
(`Leaves`). What the gatherer knows of all of them together is `Assigns`, `Roster` and `Stage`: the
identifiers given so far belong to different joiners, which is why a joiner finds itself in one place
only (`FindsItself`), however many are being gathered and in whatever order they answer. The
gatherer keeps no record of whom it gave which identifier, so the invariant has it as a hidden
function (`\E a`), which changes only when somebody is gathered.

The steps are long, since an idle proc is one step: a connection is taken, every channel pumped, each
of its messages handled, clients dropped, one shown, any number gathered. The proof follows the records
through it. One lemma for each operator from record to record says that it keeps `Fits`, of a gatherer
with its half of the wires; `LoopsKeep` carries that through the loops over clients and messages, where
what a client has sent is taken off its stream as the loop reaches it. The joiners' steps disturb one conversation, and one
lemma for each message they handle says how it goes on.

*What the hub asks for is seen* (`AsksAreAlwaysSeen`). The hub stops asking a player for an adjustment
when he acknowledges more than the tick that was open when it asked, and takes that for proof that he
has seen a packet that asked. `AsksInvariant` says why it is right to. A player it asks is one of
two things. He is `Informed`: his spoke was last asked for just that, and the frame on its way says
the same. Or he is `Behind`: he has not received the open tick, and a frame that does not ask will not
give it to him. An older frame holds only ticks that were complete by then, and even a machine left
alone, which takes its own acknowledged flags without being sent them, gets no further with it: what
is acknowledged to the last player left has been sent (`AloneIsSent`). So whoever acknowledges
more is informed. The theorem assumes `InFlight = 1`: with an old frame still to come after a new
one, it is false of the code, since the old one takes the request back on the spoke.

Only model-checked:

- liveness: the prover has neither fairness nor ENABLED;
- gathering by a user who presses PLAY too early (`StartsAhead`): what `gather_ahead` finds is all
  that is said of it;
- which asserts fail in a standalone hub once it has lost everybody: `hub_standalone` shows one;
- with bandwidth reduction, the last ticks of a machine left alone.

Recursion is mostly avoided: what would be a loop is a set, a function or a fold of the library.
Where it is not, in gathering, the loops are recursive functions over an interval. The induction that
a fact about them needs takes no operator as a parameter, only sets (`LeastNatural`, from the
library's well-founded order of the naturals, then `SetInduction`, `LoopsEnd` and `LoopsKeep`).

## Findings

All are cases where the code does not keep what it, or a comment, says. Each is the counterexample
of a run.

1. **Two players lost in one tick** (`hub_lost_together`, `network_star_hub.cpp:963`). `hub_tick`
   drops both in one pass. The first death completes ticks that the second player has provided and that
   lacked the first one's flags only, and does not send them; the second death then acknowledges
   them, past the last tick sent, and the assert fails.
   The gatherer's program ends. It takes two companions silent for the same length of time, as when
   they share a connection.
2. **The last player of a standalone hub** (`hub_standalone`, `network_star_hub.cpp:1183`).
   `make_player_netdead` calls itself for the last one left before it has done its own bookkeeping,
   and the assert in line 959 fails.
3. **Filled in while flags are still to come** (`game_alone`, `network_star_spoke.cpp:434`). A spoke
   concludes that it is alone from the tick the hub has acknowledged, not from what it has received.
   With an incremental update it may fill in a dead player's last living ticks, and has then played
   another game than the others did.
4. **An answer that comes after the start** (`gather_ahead`, `network.cpp:2710`). PLAY can be pressed
   as soon as somebody is in the game, while another joiner who has been gathered has not answered. His
   connection stays open and is dispatched in the game; his `AcceptJoin` appends a player to the
   topology in use, and `NetDistributeTopology` then fails its assert. The gatherer's program ends.
5. **Late flags that do not fit** (`hub_late`, `network_star_hub.cpp:835`, `851`). With bandwidth
   reduction, which is the default, ticks are made up for a player whose packets do not arrive, and he
   is told that they are complete, so he sends the next ones. When his packets of a lull of nearly the
   net-dead limit (150 ticks) come together between two ticks of the hub, they all go into his queue
   of late flags, which holds 150, and up to 15 new ones on top of them. "We consume these faster than
   we enqueue them (hopefully)" is not so then, and the assert in `enqueue`
   (`TickBasedCircularQueue.h:147`) ends the hub's program.

In the `trio` and `pair` runs the properties for which these matter are stated for the rest:
`HousekeepingAssertsHold` leaves out the two asserts about `sFlagSendTimeQueue`, lines 963 (finding 1) and
988 (in the configurations of the hub's runs TLC finds it failing only in calls in which line 963 has
failed before it), `MajorityNeverStalls` leaves out ticks that somebody lacks who has left
(see below), and `gather_dialog` has a user who waits for the answers (finding 4).

Also seen while modelling, and stated in the models, but without a run of its own:

- The assert in line 589 of the spoke (a connected player's action queue ends at the tick that is taken)
  can fail for a machine left alone, with bandwidth reduction: it took its own unconfirmed flags for a
  tick for which the hub had made some up, and then gets a large update that brings that tick and goes
  on. The proof of `MachinesStayInStep` led there; `MachinesInvariant` excepts just this, and
  `InStepInCompany`, which `game_trio` checks, is about machines that know of others.
- "Make up flags if a majority of players are ready to go", says line 1251 of the hub. When a player
  who lags is dropped, his death takes him off the laggards (line 1102), but his queue still ends at the
  first incomplete tick, and lines 1030-1034 make up nothing when somebody lacks that tick who is not a
  laggard. If another player lags as well, the ready majority therefore waits until he sends his flags or
  is dropped too: up to the net-dead limit, five seconds, for one tick. It takes four players, since of
  three no majority is left beside a laggard after a death; with four TLC finds it (two players lag, one
  of them is dropped). `MajorityNeverStalls` excepts ticks that somebody lacks who has left.
- The path of the spoke that fills in the queues of the dead does not record the last companion's
  death in the topology (`network_star_spoke.cpp:441`; the comment in `network_private.h:132` says
  that the server's topology has it). `DeathsReachTheTopology` speaks of machines with company and
  does not see this.
- Stream numbers are made of member numbers, and those are given out again (`server.js:514`,
  `net_relay.cpp:357`): a stream of a new member may have the number of a departed one's, and the
  gatherer's page replaces what it still had to read. `StreamsDeliverInOrder` ("reliable, ordered",
  `NetworkInterfaceWasm.h:12`) therefore excepts rooms in which a number was used twice (`IdReused`).
- A throttled frame is dropped before the close, so a stream may lose a chunk and still show the
  next; the property excepts senders who were throttled.
- When the user cancels, `NetCancelGather` queues a topology that says so, and `NetExit` deletes the
  channels with what they have queued (`network.cpp:1576`): joiners see a lost connection and never
  the cancelled game their dialog knows about.
- Room is checked when a joiner is gathered, not when the answer comes (`network.cpp:583`, `2556`,
  `network_dialogs.cpp:489-494`): with two answers outstanding and room for one, the array of players
  is overfilled. `Overbooks` switches this on.
- A joiner whose handshake is not finished when PLAY is pressed stays connected, and goes on waiting
  (`network_dialogs.cpp:553`).

## Hazards without a property

`PROJECT.json` lists the hazards, each at its line. Six have no property:

- a spoke just cut off moves its unconfirmed flags into the action queue without looking at the room
  left (`network_star_spoke.cpp:816`). The queue has room for half a minute; the models' have it too.
  Nothing else overfills a machine's queues as long as it is in company (`QueuesHoldInCompany`);
- the last companion's death, which does not reach the topology (`network_star_spoke.cpp:441`), and the
  hole that a throttled frame may leave in a stream (`server.js:453`): the properties next to them
  leave them out, see above;
- a packet from before a timing adjustment request that comes after the first one with it takes the
  request back (`network_star_spoke.cpp:406-411`), and its next repetition is taken for a new one: the
  spoke adjusts twice. The hub notices with its next window and asks for the opposite, so the game
  goes on as it should;
- more joiners gathered than there is room for (`network.cpp:583`): nothing in the source says how
  it should end; `gather_dialog` assumes a user who counts;
- joiners left in the handshake by PLAY (`network_dialogs.cpp:553`).

## Not modelled

- In the hub: which motions are made up for a laggard (`sLastFlagsReceived`, the triggers collected
  from his late flags), latency statistics, pings, preferences.
- In the spoke: `spoke_get_net_time` and its latency window, statistics, preferences, CRCs.
- In the game: the start of the next level, which reads `net_dead` of the topology; messages other
  than the star protocol's.
- Storage of the queues: their indices and the copying are not in the model, only their ticks.
- In the relay: the HTTP listing, the windows that limit attempts and requests (anybody may be turned
  away), the count of bytes (a frame is a unit), lengths of time; that `isAlive` takes two intervals.
- In the page: ports and the accept queue, reads (what has come is kept), the 256 datagrams of a
  port, the list of public rooms.
- In gathering: chat and client lists, changes of colour, the remote hub, resumed games, differing
  protocol versions, the contents of the game data; in the channels: framing, partial reads and
  writes, inflating, timeouts (somebody who gives up stands for them).
- Everything in the table under [Around it](#around-it). Rendering, sound, files, Lua and the
  simulation are sequential code over data whose correctness is not about orders of events; most of
  the repository's lines are these, or tables of data (fonts alone are a fifth). The metaserver, HTTP
  and port mapping talk to services that are not here.

## Plan

In this order.

1. *More theorems.* Gathering by a user who starts ahead, as far as finding 4 leaves it.
2. *The hub, completed.* A spoke left alone while it lags: `sSmallestUnreceivedTick` is set to the
   acknowledged tick (spoke, line 463) and may go back. The values made up from late flags.
3. *Gathering, completed.* Colours and chat, the remote hub, resumed games.
4. *The next level.* `Sync` with `net_dead`, the standalone hub program, `UnSync` and restart.
5. *Smaller machines.* Timer tasks and their catch-up, queue indices (`CircularQueue`), recording and
   replay, message framing, pinger and connect pool, sound players and sources, the game state
   machine.
