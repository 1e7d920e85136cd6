---------------------------- MODULE Gathering ----------------------------
(***************************************************************************)
(* How a game comes together (network.cpp, network_dialogs.cpp): a          *)
(* gatherer's dialog lists the joiners that have connected, the user picks  *)
(* them or lets autogather do it, the topology is handed round on every     *)
(* change, and the game starts or is cancelled.  The gatherer's and each    *)
(* joiner's network code is single-threaded: a dialog's idle proc is one    *)
(* step.  Chat, colours and the remote hub are left out.                    *)
(***************************************************************************)
EXTENDS Integers, Sequences, FiniteSets

CONSTANTS
  NumJoiners,      \* connections the gatherer is offered; stream ids count them
  MaximumPlayers,  \* MAXIMUM_NUMBER_OF_PLAYERS, and the length of topology->players
  Ungatherable,    \* joiners whose capabilities do not suffice
  Overbooks,       \* whether more joiners are gathered at a time than there is room for
  StartsAhead      \* whether the user starts while a gathered joiner has not answered yet

Joiners == 1 .. NumJoiners

ASSUME GatheringAssumption ==
  /\ NumJoiners \in Nat /\ MaximumPlayers \in Nat \ {0}
  /\ Ungatherable \subseteq Joiners
  /\ {Overbooks, StartsAhead} \subseteq BOOLEAN

\* The messages of both directions, as far as anything here depends on them.
Hello == [type |-> "hello"]
JoinerInfo == [type |-> "joiner_info"]
CapabilitiesOf(s) == [type |-> "capabilities", gatherable |-> s \notin Ungatherable]
JoinPlayer(i) == [type |-> "join_player", identifier |-> i]
AcceptJoin(i) == [type |-> "accept_join", identifier |-> i]
GameSession == [type |-> "game_session"]
Topology(tag, players) == [type |-> "topology", tag |-> tag, players |-> players]
EndGameData == [type |-> "end_game_data"]

VARIABLES
  gatherer,    \* everything the gatherer's process knows, a record
  joiner,      \* the same for each joiner
  knocking,    \* joiners in the backlog of the listener
  linked,      \* joiners whose end of the connection is open
  toJoiner, toGatherer   \* what is under way on each connection, in order
gatheringVars == <<gatherer, joiner, knocking, linked, toJoiner, toGatherer>>

----------------------------------------------------------------------------
(* The gatherer: network state and dialog state; connections_to_clients is *)
(* `clients', `up' are the channels that are connected, `out' what they    *)
(* have not sent, `wire' stands for toJoiner while a step is under way.    *)
(* Clients are visited in the order of their stream ids.                   *)

ThisPlayer == [identifier |-> 0, stream |-> 0]
NothingSent == [s \in Joiners |-> << >>]

NewGatherer ==
  [net |-> "gathering", clients |-> [s \in Joiners |-> "no_client"], up |-> {},
   players |-> <<ThisPlayer>>, nextIdentifier |-> 1, ungathered |-> {}, startable |-> FALSE,
   out |-> NothingSent]

Streams(players) == {players[i].stream : i \in DOMAIN players}
InState(g, state) == {s \in Joiners : g.clients[s] = state}
Clients(g) == {s \in Joiners : g.clients[s] # "no_client"}

ForEach(g, S, Step(_, _)) ==
  LET done[s \in 0 .. NumJoiners] ==
        IF s = 0 THEN g ELSE IF s \in S THEN Step(done[s - 1], s) ELSE done[s - 1]
  IN done[NumJoiners]

\* enqueueOutgoingMessage: nothing is queued on a channel that is not connected.
Enqueued(g, S, m) ==
  [g EXCEPT !.out = [s \in Joiners |-> IF s \in S \cap g.up THEN Append(@[s], m) ELSE @[s]]]

\* Mutants: the loop ends one player early; a topology for every connection.
FaultyShortDistributed(g, tag) ==
  Enqueued(g, Streams(SubSeq(g.players, 1, Len(g.players) - 1)), Topology(tag, g.players))
FaultyWideDistributed(g, tag) == Enqueued(g, Clients(g), Topology(tag, g.players))

Distributed(g, tag) == Enqueued(g, Streams(g.players), Topology(tag, g.players))

\* What is sent to a joiner that has closed its end goes nowhere.
Flushed(g, S) ==
  [g EXCEPT !.wire = [s \in Joiners |-> IF s \in S \cap linked THEN @[s] \o g.out[s] ELSE @[s]],
            !.out = [s \in Joiners |-> IF s \in S THEN << >> ELSE @[s]]]

\* Mutant: the client is deleted, its channel goes on being pumped.
FaultyErased(g, S) ==
  [g EXCEPT !.clients = [s \in Joiners |-> IF s \in S THEN "no_client" ELSE @[s]],
            !.out = [s \in Joiners |-> IF s \in S THEN << >> ELSE @[s]]]

Erased(g, S) ==
  [g EXCEPT !.clients = [s \in Joiners |-> IF s \in S THEN "no_client" ELSE @[s]],
            !.up = @ \ S,
            !.out = [s \in Joiners |-> IF s \in S THEN << >> ELSE @[s]]]

\* Mutant: the count goes down, the players behind the hole do not move up.
FaultyWithoutPlayer(g, s) == SubSeq(g.players, 1, Len(g.players) - 1)

WithoutPlayer(g, s) ==
  LET hole == CHOOSE i \in 2 .. Len(g.players) : g.players[i].stream = s
  IN [i \in 1 .. Len(g.players) - 1 |-> g.players[IF i < hole THEN i ELSE i + 1]]

\* Mutant: the dialog is not told of a listed joiner who leaves.
FaultyDropped(g, s) ==
  IF g.clients[s] # "awaiting_map" THEN g
  ELSE LET left == WithoutPlayer(g, s)
       IN Distributed([g EXCEPT !.players = left, !.startable = @ /\ Len(left) > 1],
                      "dropped_player")

Dropped(g, s) ==
  CASE g.clients[s] = "connected" -> [g EXCEPT !.ungathered = @ \ {s}]
    [] g.clients[s] = "awaiting_map" /\ s \in Streams(g.players) ->
         LET left == WithoutPlayer(g, s)
         IN Distributed([g EXCEPT !.players = left, !.startable = @ /\ Len(left) > 1],
                        "dropped_player")
    [] OTHER -> g

----------------------------------------------------------------------------
(* The messages the gatherer handles. *)

HandleJoinerInfo(g, s) ==
  IF g.net # "gathering" THEN g
  ELSE Enqueued([g EXCEPT !.clients[s] = "awaiting_capabilities"], {s}, CapabilitiesOf(0))

HandleCapabilities(g, s, m) ==
  IF g.clients[s] # "awaiting_capabilities" THEN g
  ELSE [g EXCEPT !.clients[s] = IF m.gatherable THEN "not_yet_shown" ELSE "ungatherable"]

\* Mutant: the topology is handed round before the newcomer is in it.
FaultyHandleAcceptJoin(g, s, m) ==
  IF g.clients[s] # "awaiting_accept_join" THEN g
  ELSE [Distributed(Enqueued(g, {s}, GameSession), "new_player") EXCEPT
          !.players = Append(@, [identifier |-> m.identifier, stream |-> s]),
          !.clients[s] = "awaiting_map", !.startable = TRUE]

HandleAcceptJoin(g, s, m) ==
  IF g.clients[s] # "awaiting_accept_join" THEN g
  ELSE LET joined ==
             [g EXCEPT !.players = Append(@, [identifier |-> m.identifier, stream |-> s]),
                       !.clients[s] = "awaiting_map", !.startable = TRUE]
       IN Distributed(Enqueued(joined, {s}, GameSession), "new_player")

Handled(g, s, m) ==
  CASE m.type = "joiner_info" -> HandleJoinerInfo(g, s)
    [] m.type = "capabilities" -> HandleCapabilities(g, s, m)
    [] m.type = "accept_join" -> HandleAcceptJoin(g, s, m)

\* pump() and dispatchIncomingMessages() of one channel: what is queued leaves, what has
\* arrived is handled, and the end of the stream, if it shows, disconnects the channel.
Dispatched(g, s, n) ==
  LET handled[i \in 0 .. n] ==
        IF i = 0 THEN g ELSE Handled(handled[i - 1], s, toGatherer[s][i])
  IN handled[n]

Pumped(g, s, arrived, ended) ==
  LET flushed == Flushed(g, {s})
      received == IF s \in ended THEN [flushed EXCEPT !.up = @ \ {s}] ELSE flushed
  IN Dispatched(received, s, arrived[s])

----------------------------------------------------------------------------
(* NetCheckForNewJoiner and the rest of GatherDialog::idle. *)

Admitted(g, s) ==
  [g EXCEPT !.clients[s] = "connecting", !.up = @ \cup {s}, !.out[s] = <<Hello>>]

Visited(g, s, arrived, ended) ==
  IF s \in g.up THEN Pumped(g, s, arrived, ended) ELSE Erased(Dropped(g, s), {s})

Shown(g) ==
  LET waiting == InState(g, "not_yet_shown")
      s == CHOOSE s \in waiting : \A t \in waiting : s <= t
  IN IF waiting = {} THEN g
     ELSE [g EXCEPT !.clients[s] = "connected", !.ungathered = @ \cup {s}]

\* Mutant: identifiers count the players, as if nobody else were being gathered.
FaultyGathered(g, s) ==
  Enqueued([g EXCEPT !.clients[s] = "awaiting_accept_join", !.ungathered = @ \ {s}],
           {s}, JoinPlayer(Len(g.players)))

Gathered(g, s) ==
  Enqueued([g EXCEPT !.clients[s] = "awaiting_accept_join", !.nextIdentifier = @ + 1,
                     !.ungathered = @ \ {s}],
           {s}, JoinPlayer(g.nextIdentifier))

HasRoom(g) == Len(g.players) < MaximumPlayers
Fit(g, n) == Overbooks \/ Len(g.players) + Cardinality(InState(g, "awaiting_accept_join")) + n
                            <= MaximumPlayers

Autogathered(g) ==
  IF HasRoom(g) THEN ForEach(g, g.ungathered, Gathered) ELSE g

\* What may have arrived of the joiners that are served, and whose end shows.  A connection
\* closed with something unread is reset, so the end may come before all that was sent.
Arrivals == [Joiners -> 0 .. 2]
IsArrival(arrived, ended) ==
  /\ \A s \in Joiners : arrived[s] <= IF s \in gatherer.up THEN Len(toGatherer[s]) ELSE 0
  /\ \A s \in ended : s \notin linked

Consumed(arrived, ended) ==
  [s \in Joiners |-> CASE s \in ended -> << >>
                       [] s \in gatherer.up \ ended -> SubSeq(toGatherer[s], arrived[s] + 1, Len(toGatherer[s]))
                       [] OTHER -> toGatherer[s]]

OffTheWire(g) ==
  [net |-> g.net, clients |-> g.clients, up |-> g.up, players |-> g.players,
   nextIdentifier |-> g.nextIdentifier, ungathered |-> g.ungathered,
   startable |-> g.startable, out |-> g.out]
OnTheWire ==
  [net |-> gatherer.net, clients |-> gatherer.clients, up |-> gatherer.up,
   players |-> gatherer.players, nextIdentifier |-> gatherer.nextIdentifier,
   ungathered |-> gatherer.ungathered, startable |-> gatherer.startable,
   out |-> gatherer.out, wire |-> toJoiner]

IdleWith(admitted, arrived, ended, auto) ==
  LET start == IF admitted = {} THEN OnTheWire
               ELSE Admitted(OnTheWire, CHOOSE s \in admitted : TRUE)
  IN /\ gatherer.net = "gathering"
     /\ \E visited \in {ForEach(start, Clients(start), LAMBDA g, s : Visited(g, s, arrived, ended))} :
          LET shown == Shown(visited)
              done == IF auto THEN Autogathered(shown) ELSE shown
          IN /\ auto => Fit(shown, Cardinality(shown.ungathered))
             /\ gatherer' = OffTheWire(done) /\ toJoiner' = done.wire
     /\ toGatherer' = Consumed(arrived, ended)
     /\ knocking' = knocking \ admitted
     /\ UNCHANGED <<joiner, linked>>

\* One new connection at most is accepted; autogather may be switched at any time.
Idle ==
  \E arrived \in Arrivals, ended \in SUBSET gatherer.up, auto \in BOOLEAN,
     admitted \in {{}} \cup {{s} : s \in knocking} :
    /\ IsArrival(arrived, ended)
    /\ \A s \in admitted, t \in knocking : s <= t
    /\ IdleWith(admitted, arrived, ended, auto)

\* The user picks a joiner from the list.
GatheredPlayer(s) ==
  /\ gatherer.net = "gathering" /\ s \in gatherer.ungathered
  /\ HasRoom(gatherer) /\ Fit(gatherer, 1)
  /\ gatherer' = Gathered(gatherer, s)
  /\ UNCHANGED <<joiner, knocking, linked, toJoiner, toGatherer>>

\* StartGameHit, NetDoneGathering, NetStart, and on the way into the game
\* NetDistributeGameDataToAllPlayers and NetSync: nothing is dispatched in between.
StartGameHit ==
  LET kept == Erased(OnTheWire, gatherer.ungathered)
      told == Distributed(kept, "start_game")
      playing == Streams(told.players)
      sent == Flushed(Enqueued(told, playing, EndGameData), playing)
  IN /\ gatherer.net = "gathering" /\ gatherer.startable
     /\ StartsAhead \/ InState(gatherer, "awaiting_accept_join") = {}
     /\ gatherer' = [OffTheWire(sent) EXCEPT
          !.net = "active", !.ungathered = {},
          !.clients = [s \in Joiners |-> IF s \in playing THEN "in_game" ELSE @[s]]]
     /\ toJoiner' = sent.wire
     /\ knocking' = {}
     /\ UNCHANGED <<joiner, linked, toGatherer>>

\* NetCancelGather and NetExit: the channels are deleted with what they have queued.
CancelGather ==
  /\ gatherer.net = "gathering"
  /\ LET told == Distributed(OnTheWire, "cancel_game")
     IN gatherer' = [OffTheWire(Erased(told, Joiners)) EXCEPT !.net = "down"]
  /\ knocking' = {}
  /\ UNCHANGED <<joiner, linked, toJoiner, toGatherer>>

\* NetProcessMessagesInGame: every channel is pumped, whoever it belongs to.
GathererInGame ==
  \E arrived \in Arrivals, ended \in SUBSET gatherer.up :
    LET done == ForEach(OnTheWire, gatherer.up, LAMBDA g, s : Pumped(g, s, arrived, ended))
    IN /\ gatherer.net = "active"
       /\ IsArrival(arrived, ended)
       /\ gatherer' = OffTheWire(done) /\ toJoiner' = done.wire
       /\ toGatherer' = Consumed(arrived, ended)
       /\ UNCHANGED <<joiner, knocking, linked>>
----------------------------------------------------------------------------
(* A joiner: `net' is its netState, `handler' its handlerState, `inbox' the *)
(* messages that have been received and not dispatched.                     *)

NewJoiner ==
  [net |-> "connecting", handler |-> "awaiting_hello", identifier |-> 0, session |-> FALSE,
   players |-> <<ThisPlayer>>, inbox |-> << >>, reply |-> << >>]

\* The joiner finds itself by its identifier; len + 1 says that it is not there.
LocalPlayerIndex(j) ==
  CHOOSE i \in 1 .. Len(j.players) + 1 :
    /\ i <= Len(j.players) => j.players[i].identifier = j.identifier
    /\ \A k \in 1 .. i - 1 : j.players[k].identifier # j.identifier

HandleHello(j) ==
  IF j.handler # "awaiting_hello" THEN j
  ELSE [j EXCEPT !.handler = "joining", !.reply = Append(@, JoinerInfo)]

HandleTheirCapabilities(j, s) ==
  IF j.handler # "joining" THEN j ELSE [j EXCEPT !.reply = Append(@, CapabilitiesOf(s))]

HandleJoinPlayer(j, m) ==
  IF j.handler # "joining" THEN j
  ELSE [j EXCEPT !.identifier = m.identifier, !.players[1].identifier = m.identifier,
                 !.handler = "waiting", !.reply = Append(@, AcceptJoin(m.identifier))]

\* Mutant: the session is expected before the joiner has been gathered.
FaultyHandleGameSession(j) == IF j.handler = "joining" THEN [j EXCEPT !.session = TRUE] ELSE j

HandleGameSession(j) == IF j.handler = "waiting" THEN [j EXCEPT !.session = TRUE] ELSE j

\* A topology that comes at any other time is ignored with a warning.
HandleTopology(j, m) ==
  IF j.net # "waiting" THEN j ELSE [j EXCEPT !.players = m.players, !.handler = m.tag]

JoinerHandled(j, s, m) ==
  CASE m.type = "hello" -> HandleHello(j)
    [] m.type = "capabilities" -> HandleTheirCapabilities(j, s)
    [] m.type = "join_player" -> HandleJoinPlayer(j, m)
    [] m.type = "game_session" -> HandleGameSession(j)
    [] m.type = "topology" -> HandleTopology(j, m)
    [] OTHER -> j

JoinerDispatched(j, s, msgs) ==
  LET handled[i \in 0 .. Len(msgs)] ==
        IF i = 0 THEN j ELSE JoinerHandled(handled[i - 1], s, msgs[i])
  IN handled[Len(msgs)]

Served == gatherer.up \cup knocking

\* What the joiner's pump finds: some of what is under way, and the end of the stream if
\* the gatherer has closed it.
Finds(s, n, ended) ==
  /\ s \in linked \/ n = 0
  /\ ended => s \in linked \ Served
  /\ toJoiner' = [toJoiner EXCEPT ![s] = IF ended THEN << >> ELSE SubSeq(@, n + 1, Len(@))]
  /\ linked' = IF ended THEN linked \ {s} ELSE linked

Found(s, n) == joiner[s].inbox \o SubSeq(toJoiner[s], 1, n)

\* The replies leave at the joiner's next pump; nothing else of the joiner comes before it.
Answered(s, j) ==
  /\ joiner' = [joiner EXCEPT ![s] = [j EXCEPT !.reply = << >>]]
  /\ toGatherer' = [toGatherer EXCEPT ![s] = IF s \in linked' THEN @ \o j.reply ELSE @]

\* A connection attempt succeeds while the gatherer listens.
Connects(s) ==
  /\ joiner[s].net = "connecting" /\ gatherer.net = "gathering"
  /\ s > 1 => joiner[s - 1].net # "connecting"
  /\ joiner' = [joiner EXCEPT ![s].net = "joining"]
  /\ knocking' = knocking \cup {s} /\ linked' = linked \cup {s}
  /\ UNCHANGED <<gatherer, toJoiner, toGatherer>>

\* NetUpdateJoinState, not gathered yet: everything that has arrived is dispatched.
JoinerJoins(s, n, ended) ==
  /\ joiner[s].net = "joining" /\ s \in linked
  /\ Finds(s, n, ended)
  /\ LET j == JoinerDispatched([joiner[s] EXCEPT !.inbox = << >>], s, Found(s, n))
     IN Answered(s, [j EXCEPT !.net = IF j.handler = "waiting" THEN "waiting" ELSE @])
  /\ UNCHANGED <<gatherer, knocking>>

\* NetUpdateJoinState, gathered: one message is dispatched per call, so that the dialog sees
\* every change of the topology.
JoinerWaits(s, n, ended) ==
  LET waiting == [joiner[s] EXCEPT !.handler = "waiting", !.inbox = Found(s, n)]
      j == IF Found(s, n) = << >> THEN waiting
           ELSE JoinerHandled([waiting EXCEPT !.inbox = Tail(@)], s, Head(Found(s, n)))
  IN /\ joiner[s].net = "waiting" /\ s \in linked
     /\ Finds(s, n, ended)
     /\ Answered(s, [j EXCEPT !.net = CASE j.handler = "start_game" -> "starting_up"
                                        [] j.handler = "cancel_game" -> "cancelled"
                                        [] OTHER -> @])
     /\ UNCHANGED <<gatherer, knocking>>

\* NetReceiveGameData: everything but the end of the game data is handed to the handlers.
JoinerStartsUp(s, n, ended) ==
  LET m == Head(Found(s, n))
      j == [joiner[s] EXCEPT !.inbox = Tail(Found(s, n))]
  IN /\ joiner[s].net = "starting_up" /\ Found(s, n) # << >>
     /\ Finds(s, n, ended)
     /\ Answered(s, IF m.type = "end_game_data" THEN [j EXCEPT !.net = "active"]
                    ELSE JoinerHandled(j, s, m))
     /\ UNCHANGED <<gatherer, knocking>>

\* NetProcessMessagesInGame of a joiner.
JoinerInGame(s, n, ended) ==
  /\ joiner[s].net = "active"
  /\ Finds(s, n, ended)
  /\ Answered(s, JoinerDispatched([joiner[s] EXCEPT !.inbox = << >>], s, Found(s, n)))
  /\ UNCHANGED <<gatherer, knocking>>

\* The dialog notices a lost connection before it looks at what it has received; its user
\* may also give up, and so does a joiner whose game data does not come.
Quits(s, net) ==
  /\ joiner' = [joiner EXCEPT ![s].net = net, ![s].inbox = << >>]
  /\ linked' = linked \ {s}
  /\ toJoiner' = [toJoiner EXCEPT ![s] = << >>]
  /\ UNCHANGED <<gatherer, knocking, toGatherer>>

JoinerLosesConnection(s) ==
  /\ s \notin linked
  /\ \/ joiner[s].net \in {"joining", "waiting"}
     \/ joiner[s].net = "starting_up" /\ joiner[s].inbox = << >>
  /\ Quits(s, "join_error")

JoinerGivesUp(s) ==
  /\ joiner[s].net \in {"joining", "waiting", "starting_up"} /\ s \in linked
  /\ Quits(s, "given_up")

JoinerUpdates(s, n, ended) ==
  \/ JoinerJoins(s, n, ended) \/ JoinerWaits(s, n, ended)
  \/ JoinerStartsUp(s, n, ended) \/ JoinerInGame(s, n, ended)

JoinerStep(s) ==
  \/ Connects(s) \/ JoinerLosesConnection(s) \/ JoinerGivesUp(s)
  \/ \E n \in 0 .. Len(toJoiner[s]), ended \in BOOLEAN : JoinerUpdates(s, n, ended)

GatheringInit ==
  /\ gatherer = NewGatherer
  /\ joiner = [s \in Joiners |-> NewJoiner]
  /\ knocking = {} /\ linked = {}
  /\ toJoiner = NothingSent /\ toGatherer = NothingSent

GatheringNext ==
  \/ Idle \/ StartGameHit \/ CancelGather \/ GathererInGame
  \/ \E s \in Joiners : GatheredPlayer(s) \/ JoinerStep(s)

GatheringSpec == GatheringInit /\ [][GatheringNext]_gatheringVars

\* The idle procs run, and what is under way arrives some time.
EverythingArrives == [s \in Joiners |-> IF s \in gatherer.up THEN Len(toGatherer[s]) ELSE 0]
GathererIdles ==
  \E admitted \in {{}} \cup {{s} : s \in knocking} :
    /\ \A s \in admitted, t \in knocking : s <= t
    /\ IdleWith(admitted, EverythingArrives, gatherer.up \ linked, FALSE)
JoinerIdles(s) == JoinerUpdates(s, Len(toJoiner[s]), s \in linked \ Served)
SomebodyIdles == GathererIdles \/ \E s \in Joiners : JoinerIdles(s) \/ JoinerLosesConnection(s)
FairGatheringSpec == GatheringSpec /\ WF_gatheringVars(SomebodyIdles)

----------------------------------------------------------------------------
ClientStates == {"connecting", "awaiting_capabilities", "not_yet_shown", "connected", "ungatherable",
                 "awaiting_accept_join", "awaiting_map", "in_game"}
JoinerStates == {"connecting", "joining", "waiting", "starting_up", "active", "cancelled",
                 "join_error", "given_up"}

\* Every part of the two dialogs' state stays among the values the code gives it, and nobody
\* is sent a second message before he has answered the first.
GatheringTypeOK ==
  /\ gatherer.net \in {"gathering", "active", "down"}
  /\ gatherer.up \subseteq Clients(gatherer)
  /\ gatherer.clients \in [Joiners -> {"no_client"} \cup ClientStates]
  /\ gatherer.nextIdentifier \in 1 .. NumJoiners + 1
  /\ \A s \in Joiners : joiner[s].net \in JoinerStates /\ Len(toGatherer[s]) <= 1
  /\ knocking \subseteq Joiners /\ linked \subseteq Joiners

\* The dialog and the network code keep their own accounts of the joiners: the list offers
\* exactly those that are connected, and PLAY can be pressed as long as there is company.
DialogAgrees ==
  gatherer.net = "gathering" =>
    /\ gatherer.ungathered = InState(gatherer, "connected")
    /\ gatherer.startable <=> Len(gatherer.players) > 1

\* The topology holds the gatherer and those who have accepted and not left, each once.
PlayersAreTheAccepted ==
  LET others == Tail(gatherer.players)
  IN /\ gatherer.net # "down" =>
          Streams(others) = InState(gatherer, "awaiting_map") \cup InState(gatherer, "in_game")
     /\ \A i, k \in DOMAIN gatherer.players :
          \/ i = k
          \/ /\ gatherer.players[i].identifier # gatherer.players[k].identifier
             /\ gatherer.players[i].stream # gatherer.players[k].stream

Underway(s) == joiner[s].inbox \o toJoiner[s] \o gatherer.out[s]
Topologies(msgs) == {i \in DOMAIN msgs : msgs[i].type = "topology"}

\* A joiner that waits has the gatherer's topology, or will have it when everything that is
\* under way to it has come: no change passes by a player who is in the game.
WaitersWillAgree ==
  \A s \in linked \cap gatherer.up :
    joiner[s].net = "waiting" /\ s \in Streams(gatherer.players) =>
      LET coming == Topologies(Underway(s))
      IN /\ coming = {} => joiner[s].players = gatherer.players
         /\ \A i \in coming : (\A k \in coming : k <= i) =>
               Underway(s)[i].players = gatherer.players

\* handleTopologyMessage never has to fear that "gatherer and joiner could disagree on
\* topology": a topology is never the next message of a joiner that does not wait.
TopologiesAreExpected ==
  \A s \in linked :
    LET next == joiner[s].inbox \o toJoiner[s]
    IN next # << >> /\ Head(next).type = "topology" => joiner[s].net = "waiting"

\* A gathered joiner finds itself in its topology, in one place, which is its own.
JoinersFindThemselves ==
  \A s \in Joiners :
    joiner[s].net \in {"waiting", "starting_up", "active"} =>
      /\ Cardinality({i \in DOMAIN joiner[s].players :
                        joiner[s].players[i].identifier = joiner[s].identifier}) = 1
      /\ joiner[s].players[LocalPlayerIndex(joiner[s])].stream \in {0, s}

\* Whoever gets into the game has the gatherer's topology and the session's name.
StartedAlike ==
  \A s \in Joiners :
    joiner[s].net \in {"starting_up", "active"} =>
      gatherer.net = "active" /\ joiner[s].players = gatherer.players /\ joiner[s].session

\* A joiner that has accepted is let in, unless one of the two gives up, and a joiner that
\* waits does not wait for a game that has started or been cancelled.
WaitersGetIn ==
  \A s \in Joiners : joiner[s].net = "waiting" ~>
    \/ joiner[s].net # "waiting"
    \/ gatherer.net = "gathering" /\ s \in Streams(joiner[s].players)

\* NetDistributeTopology asserts that the game has not begun: the topology that the game is
\* played with does not change under it.
TopologyIsSettled ==
  [][gatherer'.players # gatherer.players => gatherer.net = "gathering"]_gatheringVars
============================================================================
