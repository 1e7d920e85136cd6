----------------------------- MODULE StarSpoke -----------------------------
(***************************************************************************)
(* The spokes of the star protocol (Network/network_star_spoke.cpp), one   *)
(* for each player, every variable a function of the player it belongs to. *)
(*                                                                         *)
(* A spoke makes action flags for its own player ahead of time, offers     *)
(* them to the hub until they are acknowledged, and takes from the hub's   *)
(* packets the flags of everybody for every tick, in the order of ticks.   *)
(* What it has taken fills the action queues of its game.                  *)
(*                                                                         *)
(* Packets carry flags without the names of their players: the spoke reads *)
(* them by its own view of who is in the game.  A frame of the hub         *)
(* therefore says whose flags it really holds, and a spoke that expects    *)
(* others is out of step for good.                                         *)
(*                                                                         *)
(* Abstracted: the flags themselves (whose they are, for which tick, and   *)
(* whether the player or the hub made them is kept), CRCs, the latency     *)
(* statistics, and sWorldUpdate, which only paces the main thread.         *)
(***************************************************************************)
EXTENDS StarTopology, Sequences

CONSTANTS
  Zombies,                        \* players without an action queue (mZombie)
  OutgoingFlagsQueueSize,         \* kDefaultOutgoingFlagsQueueSize
  ActionQueueSize,                \* room for flags in a player's action queue
  SpokePregameTicksBeforeNetDeath, \* mPregameTicksBeforeNetDeath of the spoke
  SpokeInGameTicksBeforeNetDeath, \* mInGameTicksBeforeNetDeath of the spoke
  SpokeRecoverySendPeriod,        \* mRecoverySendPeriod of the spoke
  IdentificationPeriod            \* spoke_tick identifies itself every 30 ticks

ASSUME SpokeConstants ==
  /\ Zombies \subseteq Players
  /\ {OutgoingFlagsQueueSize, ActionQueueSize, SpokePregameTicksBeforeNetDeath,
      SpokeInGameTicksBeforeNetDeath, SpokeRecoverySendPeriod,
      IdentificationPeriod} \subseteq Nat \ {0}

VARIABLES
  spokeActive,              \* sSpokeActive
  spokeConnected,           \* sConnected
  heardFromHub,             \* sHeardFromHub
  outgoingReadTick,         \* sOutgoingFlags.getReadTick()
  outgoingWriteTick,        \* sOutgoingFlags.getWriteTick()
  unconfirmedReadTick,      \* sUnconfirmedFlags.getReadTick()
  unconfirmedWriteTick,     \* sUnconfirmedFlags.getWriteTick()
  smallestUnconfirmedTick,  \* sSmallestUnconfirmedTick
  smallestUnreceivedTick,   \* sSmallestUnreceivedTick
  stillConnected,           \* players this spoke believes to be in the game (mConnected)
  deadTick,                 \* mNetDeadTick
  reallyNetDead,            \* players made net_dead in the topology of this machine
  gameFlags,                \* everything ever enqueued in each player's action queue
  gameTicks,                \* how many of those the game has taken
  requestedAdjustment,      \* sRequestedTimingAdjustment
  outstandingAdjustment,    \* sOutstandingTimingAdjustment
  hubSilence,               \* sNetworkTicker - sLastNetworkTickHeard, saturating
  sinceSpokeSent,           \* sNetworkTicker - sLastNetworkTickSent, saturating
  spokeTicker,              \* sNetworkTicker, modulo the identification period
  spokeFailures             \* lines of the asserts that failed, 577 when out of step

spokeQueueVars == <<outgoingReadTick, outgoingWriteTick, unconfirmedReadTick,
                    unconfirmedWriteTick, smallestUnconfirmedTick>>
viewVars == <<stillConnected, deadTick, reallyNetDead>>
receivedVars == <<smallestUnreceivedTick, gameFlags>>
timingVars == <<requestedAdjustment, outstandingAdjustment>>
clockVars == <<hubSilence, sinceSpokeSent, spokeTicker>>
spokeVars == <<spokeActive, spokeConnected, heardFromHub, spokeQueueVars, viewVars,
               receivedVars, gameTicks, timingVars, clockVars, spokeFailures>>

-----------------------------------------------------------------------------
(* Flags and frames.                                                        *)

\* What an action queue may hold for a tick: what the player did in it, what the hub made
\* up for a laggard, NET_DEAD_ACTION_FLAG, what the player does once cut off from the hub.
Real(tick)   == <<"player", tick>>
MadeUp(tick) == <<"hub", tick>>
NetDeadFlags == <<"net dead">>
AloneFlags   == <<"cut off">>

\* Acknowledges what the hub has of its flags rather than what it has received.
FaultyGameDataFrame(p) ==
  [type |-> "game data", ack |-> outgoingReadTick[p],
   start |-> outgoingReadTick[p], end |-> outgoingWriteTick[p]]

\* spoke to hub: game data, and the identification sent until the hub is heard from.
GameDataFrame(p) ==
  [type |-> "game data", ack |-> smallestUnreceivedTick[p],
   start |-> outgoingReadTick[p], end |-> outgoingWriteTick[p]]
IdentificationFrame == [type |-> "identification"]

-----------------------------------------------------------------------------

SpokeInit(initiallyConnected) ==
  /\ spokeActive = [p \in Players |-> p \in initiallyConnected]
  /\ spokeConnected = [p \in Players |-> TRUE]
  /\ heardFromHub = [p \in Players |-> FALSE]
  /\ outgoingReadTick = [p \in Players |-> FirstTick]
  /\ outgoingWriteTick = [p \in Players |-> FirstTick]
  /\ unconfirmedReadTick = [p \in Players |-> StartingTick]
  /\ unconfirmedWriteTick = [p \in Players |-> StartingTick]
  /\ smallestUnconfirmedTick = [p \in Players |-> StartingTick]
  /\ smallestUnreceivedTick = [p \in Players |-> FirstTick]
  /\ stillConnected = [p \in Players |-> initiallyConnected]
  /\ deadTick = [p \in Players |-> [q \in Players |-> FirstTick - 1]]
  /\ reallyNetDead = [p \in Players |-> {}]
  /\ gameFlags = [p \in Players |-> [q \in Players |-> << >>]]
  /\ gameTicks = [p \in Players |-> 0]
  /\ requestedAdjustment = [p \in Players |-> 0]
  /\ outstandingAdjustment = [p \in Players |-> 0]
  /\ hubSilence = [p \in Players |-> 0]
  /\ sinceSpokeSent = [p \in Players |-> 0]
  /\ spokeTicker = [p \in Players |-> 0]
  /\ spokeFailures = [p \in Players |-> {}]

Running(p) == spokeActive[p] /\ spokeFailures[p] = {}

\* The write tick of player q's action queue on p's machine.
GameWriteTick(p, q) == StartingTick + Len(gameFlags[p][q])

\* theSmallestQueueSpace of p's machine.
QueueSpace(p) ==
  LET space == {ActionQueueSize - (Len(gameFlags[p][q]) - gameTicks[p]) :
                  q \in Players \ Zombies}
  IN  CHOOSE s \in space : \A other \in space : s <= other

-----------------------------------------------------------------------------
(* spoke_received_game_data_packet_v1 of p, given frame f of the hub:        *)
(*   ack, adjustment (0 when there is no such message), reflects,            *)
(*   deaths: the net death messages, pairs of a player and a tick,           *)
(*   flags: for each tick that has any, the flags of the players sent.       *)

StillConnected(p, f) == stillConnected[p] \ {death[1] : death \in f.deaths}

DeadTicks(p, f) ==
  [q \in Players |-> IF \E death \in f.deaths : death[1] = q
                     THEN (CHOOSE death \in f.deaths : death[1] = q)[2]
                     ELSE deadTick[p][q]]

\* Flags are still expected for the tick of death.
FaultyGone(p, f, q, tick) == q \notin StillConnected(p, f) /\ DeadTicks(p, f)[q] < tick

\* q is net dead in this tick, so that the frame holds no flags of his.
Gone(p, f, q, tick) == q \notin StillConnected(p, f) /\ DeadTicks(p, f)[q] <= tick

\* Whose flags p takes from the frame for this tick.
ReadsFlagsOf(p, f, tick) ==
  {q \in Players \ Zombies : (q = p => f.reflects) /\ ~Gone(p, f, q, tick)}

\* The own flags are confirmed even if the hub has sent others in their place.
FaultyTakenFlags(p, f, q, tick) ==
  IF q = p THEN Real(smallestUnconfirmedTick[p] + tick - Larger(smallestUnreceivedTick[p], StartingTick))
  ELSE IF Gone(p, f, q, tick) THEN NetDeadFlags
  ELSE f.flags[tick][q]

\* What p enqueues for q in a new tick: its own flags, in the order it made them, unless
\* they are reflected.
TakenFlags(p, f, q, tick) ==
  IF q = p /\ ~f.reflects
  THEN Real(smallestUnconfirmedTick[p] + tick - Larger(smallestUnreceivedTick[p], StartingTick))
  ELSE IF Gone(p, f, q, tick) THEN NetDeadFlags
  ELSE f.flags[tick][q]

\* The last of the new ticks is forgotten.
FaultyMadeNetDead(p, f, stop) ==
  {q \in Players \ Zombies : /\ q = p => f.reflects
                             /\ q \notin StillConnected(p, f)
                             /\ DeadTicks(p, f)[q] \in smallestUnreceivedTick[p] .. stop - 2}

\* Players whose tick of death is among the new ones, up to but not including stop.
MadeNetDead(p, f, stop) ==
  {q \in Players \ Zombies : /\ q = p => f.reflects
                             /\ q \notin StillConnected(p, f)
                             /\ DeadTicks(p, f)[q] \in smallestUnreceivedTick[p] .. stop - 1}

\* We are alone: nobody else is connected, or will still have flags for the hub to send.
WeAreAlone(p, f, acked) ==
  \A q \in Players \ {p} : q \notin StillConnected(p, f) /\ DeadTicks(p, f)[q] <= acked

\* queue, filled with net dead flags up to a tick.
FilledWithNetDead(queue, tick) ==
  queue \o [k \in 1 .. Larger(tick - StartingTick - Len(queue), 0) |-> NetDeadFlags]

\* The unconfirmed flags of p from the smallest unconfirmed tick on.
Unconfirmed(p) ==
  [k \in 1 .. Larger(unconfirmedWriteTick[p] - smallestUnconfirmedTick[p], 0) |->
     Real(smallestUnconfirmedTick[p] + k - 1)]

\* The special case of a packet without flags.
ReceiveNoFlags(p, f, acked) ==
  /\ IF WeAreAlone(p, f, acked)
     THEN /\ gameFlags' = [gameFlags EXCEPT ![p] =
               [q \in Players |-> IF q = p THEN @[q] \o Unconfirmed(p)
                                  ELSE IF q \in Zombies THEN @[q]
                                  ELSE FilledWithNetDead(@[q], acked)]]
          /\ smallestUnconfirmedTick' = [smallestUnconfirmedTick EXCEPT ![p] =
                                           Larger(@, unconfirmedWriteTick[p])]
          /\ smallestUnreceivedTick' = [smallestUnreceivedTick EXCEPT ![p] = acked]
     ELSE UNCHANGED <<gameFlags, smallestUnconfirmedTick, smallestUnreceivedTick>>
  /\ UNCHANGED <<reallyNetDead, spokeFailures>>

\* The asserts, by line, that fail when p reads the ticks of f up to but not including stop:
\* flags are missing or left over, or the queues are not where the ticks that are new begin.
FailedAsserts(p, f, start, stop) ==
  LET first == Larger(smallestUnreceivedTick[p], StartingTick)
      taken == Larger(stop - first, 0)
      own   == ~f.reflects /\ taken > 0
  IN  IF \E t \in start .. stop - 1 : ReadsFlagsOf(p, f, t) # DOMAIN f.flags[t] THEN {577}
      ELSE {l \in {534, 535, 536, 589} :
        \/ l = 534 /\ own /\ GameWriteTick(p, p) # smallestUnconfirmedTick[p]
        \/ l = 535 /\ own /\ smallestUnconfirmedTick[p] < unconfirmedReadTick[p]
        \/ l = 536 /\ own /\ smallestUnconfirmedTick[p] + taken > unconfirmedWriteTick[p]
        \/ l = 589 /\ taken > 0 /\ \E q \in ReadsFlagsOf(p, f, stop - 1) \cap StillConnected(p, f) :
                                     GameWriteTick(p, q) # first}

\* The loop over the ticks of a packet, as far as the action queues have room; a tick
\* that is new is enqueued for everybody, real game or not.
ReceiveFlags(p, f, start, stop) ==
  LET first == Larger(smallestUnreceivedTick[p], StartingTick)
      taken == Larger(stop - first, 0)
      fails == FailedAsserts(p, f, start, stop)
  IN  IF fails # {}
      THEN /\ spokeFailures' = [spokeFailures EXCEPT ![p] = fails]
           /\ UNCHANGED <<reallyNetDead, receivedVars, smallestUnconfirmedTick>>
      ELSE /\ gameFlags' = [gameFlags EXCEPT ![p] =
                [q \in Players |-> IF q \in Zombies THEN @[q]
                   ELSE @[q] \o [k \in 1 .. taken |-> TakenFlags(p, f, q, first + k - 1)]]]
           /\ smallestUnconfirmedTick' = [smallestUnconfirmedTick EXCEPT ![p] = @ + taken]
           /\ smallestUnreceivedTick' = [smallestUnreceivedTick EXCEPT ![p] = Larger(@, stop)]
           /\ reallyNetDead' = [reallyNetDead EXCEPT ![p] = @ \cup MadeNetDead(p, f, stop)]
           /\ UNCHANGED spokeFailures

SkipsTicks(p, start) == start > smallestUnreceivedTick[p]

\* Packets that skip ticks are put aside; the rest is read up to where the queues are full.
ReceiveTicks(p, f, acked) ==
  LET start == CHOOSE t \in DOMAIN f.flags : \A u \in DOMAIN f.flags : t <= u
      last  == CHOOSE t \in DOMAIN f.flags : \A u \in DOMAIN f.flags : u <= t
      stop  == Smaller(last + 1, smallestUnreceivedTick[p] + QueueSpace(p))
  IN  IF f.flags = << >> THEN ReceiveNoFlags(p, f, acked)
      ELSE IF SkipsTicks(p, start) \/ QueueSpace(p) <= 0
      THEN UNCHANGED <<reallyNetDead, receivedVars, smallestUnconfirmedTick, spokeFailures>>
      ELSE ReceiveFlags(p, f, start, stop)

\* An ack beyond what we sent is possible only if the hub made up flags for us; unless
\* those come with it, the packet is dropped.
SpokeReceives(p, f) ==
  LET early == f.ack > outgoingWriteTick[p]
      acked == Larger(outgoingReadTick[p], Smaller(f.ack, outgoingWriteTick[p]))
  IN  /\ Running(p)
      /\ spokeConnected[p]
      /\ heardFromHub' = [heardFromHub EXCEPT ![p] = TRUE]
      /\ IF early /\ ~f.reflects
         THEN UNCHANGED <<hubSilence, outgoingReadTick, viewVars, timingVars, receivedVars,
                          smallestUnconfirmedTick, spokeFailures>>
         ELSE /\ hubSilence' = [hubSilence EXCEPT ![p] = 0]
              /\ outgoingReadTick' = [outgoingReadTick EXCEPT ![p] = acked]
              /\ stillConnected' = [stillConnected EXCEPT ![p] = StillConnected(p, f)]
              /\ deadTick' = [deadTick EXCEPT ![p] = DeadTicks(p, f)]
              /\ requestedAdjustment' = [requestedAdjustment EXCEPT ![p] = f.adjustment]
              /\ outstandingAdjustment' = [outstandingAdjustment EXCEPT ![p] =
                   IF f.adjustment \notin {0, requestedAdjustment[p]} THEN f.adjustment ELSE @]
              /\ ReceiveTicks(p, f, acked)
      /\ UNCHANGED <<spokeActive, spokeConnected, outgoingWriteTick, unconfirmedReadTick,
                     unconfirmedWriteTick, gameTicks, sinceSpokeSent, spokeTicker>>

-----------------------------------------------------------------------------
(* spoke_tick                                                               *)

TicksBeforeSpokeNetDeath(p) ==
  IF outgoingReadTick[p] >= StartingTick
  THEN SpokeInGameTicksBeforeNetDeath ELSE SpokePregameTicksBeforeNetDeath

HubSilenceCap == 1 + Larger(SpokePregameTicksBeforeNetDeath, SpokeInGameTicksBeforeNetDeath)

\* The hub has been silent for too long: spoke_became_disconnected, and nothing else.
SpokeGivesUp(p) ==
  /\ Running(p)
  /\ spokeConnected[p]
  /\ hubSilence[p] + 1 > TicksBeforeSpokeNetDeath(p)
  /\ spokeConnected' = [spokeConnected EXCEPT ![p] = FALSE]
  /\ reallyNetDead' = [reallyNetDead EXCEPT ![p] = @ \cup stillConnected[p]]
  /\ hubSilence' = [hubSilence EXCEPT ![p] = 0]
  /\ UNCHANGED <<spokeActive, heardFromHub, spokeQueueVars, stillConnected, deadTick,
                 receivedVars, gameTicks, timingVars, sinceSpokeSent, spokeTicker,
                 spokeFailures>>

\* The room in the outgoing queue is not looked at.
FaultyFlagsRoom(p) == Horizon - outgoingWriteTick[p]

\* How many flags for the coming ticks the queues of p have room for: before the game only
\* the outgoing queue takes them, in the game the unconfirmed queue as well, and once cut
\* off only the own action queue.
FlagsRoom(p) ==
  LET outgoing    == OutgoingFlagsQueueSize - (outgoingWriteTick[p] - outgoingReadTick[p])
      unconfirmed == OutgoingFlagsQueueSize - (unconfirmedWriteTick[p] - unconfirmedReadTick[p])
      pregame     == Larger(StartingTick - outgoingWriteTick[p], 0)
      bound       == Horizon - outgoingWriteTick[p]
  IN  IF ~spokeConnected[p]
      THEN Smaller(ActionQueueSize - (Len(gameFlags[p][p]) - gameTicks[p]),
                   Horizon - GameWriteTick(p, p) - Len(Unconfirmed(p)))
      ELSE Smaller(Smaller(outgoing, pregame + unconfirmed), bound)

\* One flag more than the hub asks for, as far as there is room; none while it asks for
\* fewer.
FlagsProvided(p) ==
  IF outstandingAdjustment[p] > 0 THEN 0
  ELSE Larger(Smaller(1 - outstandingAdjustment[p], FlagsRoom(p)), 0)

\* What is still outstanding; nothing changes when no flag could be provided.
StillOutstanding(p) ==
  IF outstandingAdjustment[p] > 0 THEN outstandingAdjustment[p] - 1
  ELSE IF FlagsProvided(p) = 0 THEN outstandingAdjustment[p]
  ELSE FlagsProvided(p) - (1 - outstandingAdjustment[p])

\* Nothing is sent but what is new.
FaultySendsGameData(p) == spokeConnected[p] /\ heardFromHub[p] /\ FlagsProvided(p) > 0

\* Does the tick send what there is to send, or who we are?
SendsGameData(p) ==
  /\ spokeConnected[p] /\ heardFromHub[p]
  /\ FlagsProvided(p) > 0 \/ sinceSpokeSent[p] + 1 >= SpokeRecoverySendPeriod

SendsIdentification(p) ==
  /\ spokeConnected[p] /\ ~heardFromHub[p]
  /\ (spokeTicker[p] + 1) % IdentificationPeriod = 0

\* The tick of a spoke in touch with its hub.
ConnectedTick(p) ==
  LET write == outgoingWriteTick[p] + FlagsProvided(p)
  IN  /\ spokeConnected[p]
      /\ hubSilence[p] + 1 <= TicksBeforeSpokeNetDeath(p)
      /\ outgoingWriteTick' = [outgoingWriteTick EXCEPT ![p] = write]
      /\ unconfirmedWriteTick' = [unconfirmedWriteTick EXCEPT ![p] =
           @ + Larger(write - Larger(outgoingWriteTick[p], StartingTick), 0)]
      /\ hubSilence' = [hubSilence EXCEPT ![p] = Smaller(@ + 1, HubSilenceCap)]
      /\ sinceSpokeSent' = [sinceSpokeSent EXCEPT ![p] =
           IF SendsGameData(p) THEN 0 ELSE Smaller(@ + 1, SpokeRecoverySendPeriod)]
      /\ UNCHANGED <<smallestUnconfirmedTick, gameFlags>>

\* The tick of a spoke cut off: its new flags go into its own action queue, then those
\* that were never confirmed; the others' queues are filled up to where the own one
\* ended before that.
CutOffTick(p) ==
  LET own == gameFlags[p][p] \o [k \in 1 .. FlagsProvided(p) |-> AloneFlags]
  IN  /\ ~spokeConnected[p]
      /\ gameFlags' = [gameFlags EXCEPT ![p] =
           [q \in Players |-> IF q = p THEN own \o Unconfirmed(p)
                              ELSE IF q \in Zombies THEN @[q]
                              ELSE FilledWithNetDead(@[q], StartingTick + Len(own))]]
      /\ smallestUnconfirmedTick' = [smallestUnconfirmedTick EXCEPT ![p] =
                                       Larger(@, unconfirmedWriteTick[p])]
      /\ UNCHANGED <<outgoingWriteTick, unconfirmedWriteTick, hubSilence, sinceSpokeSent>>

SpokeTick(p) ==
  /\ Running(p)
  /\ ConnectedTick(p) \/ CutOffTick(p)
  /\ outstandingAdjustment' = [outstandingAdjustment EXCEPT ![p] = StillOutstanding(p)]
  /\ spokeTicker' = [spokeTicker EXCEPT ![p] = (@ + 1) % IdentificationPeriod]
  /\ UNCHANGED <<spokeActive, spokeConnected, heardFromHub, outgoingReadTick,
                 unconfirmedReadTick, viewVars, smallestUnreceivedTick, gameTicks,
                 requestedAdjustment, spokeFailures>>

-----------------------------------------------------------------------------
(* The main thread of p's machine.                                          *)

\* UpdateUnconfirmedActionFlags: predictions that have been confirmed are forgotten.
ForgetConfirmed(p) ==
  /\ Running(p)
  /\ unconfirmedReadTick[p] < Smaller(smallestUnconfirmedTick[p], unconfirmedWriteTick[p])
  /\ unconfirmedReadTick' = [unconfirmedReadTick EXCEPT ![p] =
                               Smaller(smallestUnconfirmedTick[p], unconfirmedWriteTick[p])]
  /\ UNCHANGED <<spokeActive, spokeConnected, heardFromHub, outgoingReadTick,
                 outgoingWriteTick, unconfirmedWriteTick, smallestUnconfirmedTick, viewVars,
                 receivedVars, gameTicks, timingVars, clockVars, spokeFailures>>

\* The game takes the flags of one tick from every action queue.
GameAdvances(p) ==
  /\ Running(p)
  /\ \A q \in Players \ Zombies : gameTicks[p] < Len(gameFlags[p][q])
  /\ gameTicks' = [gameTicks EXCEPT ![p] = @ + 1]
  /\ UNCHANGED <<spokeActive, spokeConnected, heardFromHub, spokeQueueVars, viewVars,
                 receivedVars, timingVars, clockVars, spokeFailures>>

\* spoke_cleanup: no tick or packet is handled any more; the last frame goes out.
SpokeCleanup(p) ==
  /\ Running(p)
  /\ spokeActive' = [spokeActive EXCEPT ![p] = FALSE]
  /\ UNCHANGED <<spokeConnected, heardFromHub, spokeQueueVars, viewVars, receivedVars,
                 gameTicks, timingVars, clockVars, spokeFailures>>

SpokeTypeOK ==
  /\ spokeActive \in [Players -> BOOLEAN]
  /\ spokeConnected \in [Players -> BOOLEAN]
  /\ heardFromHub \in [Players -> BOOLEAN]
  /\ outgoingReadTick \in [Players -> FirstTick .. Horizon]
  /\ outgoingWriteTick \in [Players -> FirstTick .. Horizon]
  /\ unconfirmedReadTick \in [Players -> StartingTick .. Horizon]
  /\ unconfirmedWriteTick \in [Players -> StartingTick .. Horizon]
  /\ smallestUnconfirmedTick \in [Players -> StartingTick .. Horizon]
  /\ smallestUnreceivedTick \in [Players -> FirstTick .. Horizon]
  /\ stillConnected \in [Players -> SUBSET Players]
  /\ deadTick \in [Players -> [Players -> FirstTick - 1 .. Horizon]]
  /\ reallyNetDead \in [Players -> SUBSET Players]
  /\ \A p \in Players :
       /\ outgoingWriteTick[p] - outgoingReadTick[p] \in 0 .. OutgoingFlagsQueueSize
       /\ unconfirmedWriteTick[p] - unconfirmedReadTick[p] \in 0 .. OutgoingFlagsQueueSize
  /\ \A p, q \in Players :
       /\ Len(gameFlags[p][q]) <= Horizon - StartingTick
       /\ Len(gameFlags[p][q]) - gameTicks[p] <= ActionQueueSize
  /\ hubSilence \in [Players -> 0 .. HubSilenceCap]
  /\ sinceSpokeSent \in [Players -> 0 .. SpokeRecoverySendPeriod]
  /\ spokeTicker \in [Players -> 0 .. IdentificationPeriod - 1]
=============================================================================
