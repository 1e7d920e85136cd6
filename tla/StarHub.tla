------------------------------ MODULE StarHub ------------------------------
(***************************************************************************)
(* The hub of the star protocol (Network/network_star_hub.cpp).            *)
(*                                                                         *)
(* Every spoke streams action flags, one per tick, to the hub.  A tick is  *)
(* complete once the hub holds the flags of every connected player; the    *)
(* hub then sends it to all spokes until all have acknowledged it.  One    *)
(* queue of player sets, sPlayerDataDisposition, says for each tick which  *)
(* players the hub is still waiting on: for their flags at and above the   *)
(* smallest incomplete tick, for their acknowledgement below it.           *)
(*                                                                         *)
(* Handlers run under the mytm mutex, so each is atomic for the other      *)
(* threads.  hub_tick is cut at its loop over the players: scan and dying  *)
(* are its program counter, and nothing else runs until it is done.        *)
(*                                                                         *)
(* Left to other modules or abstracted: what the flags say (a tick's flags *)
(* are real, or made up by the hub: playerReflectedFlags), the queues of   *)
(* late flags and sLastFlagsReceived, which only choose the made-up value, *)
(* timing adjustment, latency statistics and pings.                        *)
(***************************************************************************)
EXTENDS StarTopology

CONSTANTS
  PostGameTicks,               \* bound: the ticks at which the game may be ended
  QueueSize,                   \* kFlagsQueueSize
  PregameWindowSize,           \* mPregameWindowSize
  PregameTicksBeforeNetDeath,  \* mPregameTicksBeforeNetDeath
  InGameTicksBeforeNetDeath,   \* mInGameTicksBeforeNetDeath
  SendPeriod,                  \* mSendPeriod
  RecoverySendPeriod,          \* mRecoverySendPeriod
  MinimumSendPeriod,           \* mMinimumSendPeriod
  BandwidthReduction           \* mBandwidthReduction

ASSUME HubConstants ==
  /\ NumPlayers \in Nat \ {0}
  /\ LocalPlayer \in Players \cup {NONE}
  /\ StartingTick \in Int /\ PregameTicks \in Nat /\ Horizon \in Int
  /\ FirstTick <= Horizon
  /\ PostGameTicks \subseteq FirstTick .. Horizon
  /\ QueueSize \in Nat \ {0}
  /\ {PregameWindowSize, PregameTicksBeforeNetDeath, InGameTicksBeforeNetDeath,
      SendPeriod, RecoverySendPeriod} \subseteq Nat \ {0}
  /\ MinimumSendPeriod \in Nat
  /\ BandwidthReduction \in BOOLEAN

VARIABLES
  hubActive,                   \* sHubActive
  cleanup,                     \* how far hub_cleanup has come
  smallestPostGameTick,        \* sSmallestPostGameTick
  connected,                   \* sConnectedPlayersBitmask, and mConnected
  addressKnown,                \* players with mAddressKnown
  referencePlayer,             \* sReferencePlayerIndex
  smallestUnacknowledgedTick,  \* mSmallestUnacknowledgedTick
  netDeadTick,                 \* mNetDeadTick
  silence,                     \* sNetworkTicker - mLastNetworkTickHeard, saturating
  flagsReadTick,               \* sFlagsQueues[i].getReadTick()
  flagsWriteTick,              \* sFlagsQueues[i].getWriteTick()
  playerDataDisposition,       \* sPlayerDataDisposition, {} outside the queue
  playerReflectedFlags,        \* sPlayerReflectedFlags, {} outside the queue
  dispositionReadTick,         \* common read tick of those two and of sFlagSendTimeQueue
  dispositionWriteTick,        \* common write tick of the first two
  smallestIncompleteTick,      \* sSmallestIncompleteTick
  smallestUnsentTick,          \* sSmallestUnsentTick, and the write tick of sFlagSendTimeQueue
  laggingPlayers,              \* sLaggingPlayersBitmask
  sinceRealUpdate,             \* sNetworkTicker - sLastRealUpdate, saturating
  sinceSent,                   \* sNetworkTicker - sLastNetworkTickSent, saturating
  scan,                        \* hub_tick: player its loop is at, NONE between ticks
  died,                        \* hub_tick: shouldSend
  dying,                       \* player whose death is being booked, or NONE
  suspended,                   \* caller of a recursive make_player_netdead, or NONE
  failedAsserts                \* lines of the asserts that failed; then the program is over

playerVars  == <<connected, addressKnown, referencePlayer, netDeadTick>>
queueVars   == <<flagsReadTick, flagsWriteTick, playerDataDisposition,
                 playerReflectedFlags, dispositionReadTick, dispositionWriteTick,
                 smallestIncompleteTick, smallestUnacknowledgedTick>>
sendVars    == <<smallestUnsentTick, sinceSent>>
lagVars     == <<laggingPlayers, sinceRealUpdate>>
tickVars    == <<scan, died, dying, suspended>>
cleanupVars == <<cleanup, smallestPostGameTick>>
hubVars == <<hubActive, silence, playerVars, queueVars, sendVars, lagVars,
             tickVars, cleanupVars, failedAsserts>>

\* The tick after the last one of S, or lo when S is empty.
PastEnd(S, lo) ==
  IF S = {} THEN lo ELSE 1 + CHOOSE m \in S : \A t \in S : t <= m

-----------------------------------------------------------------------------
(* Bookkeeping on a disposition queue d.                                    *)

\* Definitions called Faulty... are what a slip in the code would make of the next one;
\* no specification uses them.  This one includes the end of the range.
FaultyClearBit(d, p, lo, hi) ==
  [t \in Ticks |-> IF lo <= t /\ t <= hi THEN d[t] \ {p} ELSE d[t]]

\* Clears p's bit for the ticks from lo up to but not including hi.
ClearBit(d, p, lo, hi) ==
  [t \in Ticks |-> IF lo <= t /\ t < hi THEN d[t] \ {p} ELSE d[t]]

\* The local player's bit is not looked at.
FaultyNobodyAwaited(d, lo, hi) == {t \in lo .. hi - 1 : d[t] \subseteq {LocalPlayer}}

NobodyAwaited(d, lo, hi) == {t \in lo .. hi - 1 : d[t] = {}}

\* One tick short of the end is enough.
FaultySomeoneStillActive(acks) == \E i \in connected : acks[i] + 1 < smallestPostGameTick

\* hub_check_for_completion with these acknowledgements: is anybody still active?
SomeoneStillActive(acks) == \E i \in connected : acks[i] < smallestPostGameTick

\* One tick more is taken off the flags queues than off the disposition queue.
FaultyDequeuedFlags(read) ==
  [i \in Players |-> IF flagsReadTick[i] < flagsWriteTick[i] /\ read > dispositionReadTick
                     THEN Smaller(flagsReadTick[i] + read - dispositionReadTick + 1, flagsWriteTick[i])
                     ELSE flagsReadTick[i]]

\* The flags queues once the disposition queue's read tick has moved up to read.
DequeuedFlags(read) ==
  [i \in Players |-> IF flagsReadTick[i] < flagsWriteTick[i]
                     THEN Smaller(flagsReadTick[i] + read - dispositionReadTick, flagsWriteTick[i])
                     ELSE flagsReadTick[i]]

\* A completed tick is not filled with the connected players again.
FaultyAwaitAcks(d, done) == d

\* Ticks just completed wait for acknowledgements from now on.
AwaitAcks(d, done) == [t \in Ticks |-> IF t \in done THEN connected ELSE d[t]]

\* player_acknowledged_up_to_tick(p, ack), after its early return for late ACKs.
Acknowledged(d, p, ack) ==
  LET lo    == smallestUnacknowledgedTick[p]
      after == ClearBit(d, p, lo, ack)
      done  == NobodyAwaited(after, lo, ack)
      read  == PastEnd(done, dispositionReadTick)
  IN  [disposition |-> after,
       read  |-> read,
       flags |-> DequeuedFlags(read),
       failed |-> {l \in {959, 963, 983, 988, 994} :
         \/ l = 959 /\ \E t \in lo .. ack - 1 : p \notin d[t]
         \/ l = 963 /\ p # LocalPlayer /\ lo < ack /\ smallestUnsentTick < ack
         \/ l = 983 /\ done # dispositionReadTick .. read - 1
         \/ l = 988 /\ done # {} /\ smallestUnsentTick < read
         \/ l = 994 /\ done # {} /\ \E i \in Players :
                         /\ flagsReadTick[i] < flagsWriteTick[i]
                         /\ flagsReadTick[i] # dispositionReadTick}]

\* player_provided_flags_from_tick_to_tick(p, lo, hi).
Provided(d, p, lo, hi) ==
  LET grown == [t \in Ticks |-> IF dispositionWriteTick <= t /\ t < hi THEN connected ELSE d[t]]
      after == ClearBit(grown, p, lo, hi)
      done  == NobodyAwaited(after, lo, hi)
      next  == PastEnd(done, smallestIncompleteTick)
  IN  [disposition |-> AwaitAcks(after, done),
       incomplete  |-> next,
       completes   |-> done # {},
       failed |-> {l \in {1097, 1109} :
         \/ l = 1097 /\ \E t \in lo .. hi - 1 : p \notin grown[t]
         \/ l = 1109 /\ done # smallestIncompleteTick .. next - 1}]

\* The tick that is read next is lost as well.
FaultyDequeued(reflected, read) == [t \in Ticks |-> IF t <= read THEN {} ELSE reflected[t]]

Dequeued(reflected, read) == [t \in Ticks |-> IF t < read THEN {} ELSE reflected[t]]

\* A failed assert ends the program; what else the handler did is beside the point.
Abort(lines) ==
  /\ failedAsserts' = lines
  /\ UNCHANGED <<hubActive, silence, playerVars, queueVars, sendVars, lagVars,
                 tickVars, cleanupVars>>

\* The first tick that is not complete counts as sent.
FaultySendPacketsIf(sends, incomplete) ==
  /\ smallestUnsentTick' = IF sends THEN incomplete + 1 ELSE smallestUnsentTick
  /\ sinceSent' = IF sends THEN 0 ELSE sinceSent

\* send_packets(), or not; incomplete is the smallest incomplete tick by then.
SendPacketsIf(sends, incomplete) ==
  /\ smallestUnsentTick' = IF sends THEN incomplete ELSE smallestUnsentTick
  /\ sinceSent' = IF sends THEN 0 ELSE sinceSent

-----------------------------------------------------------------------------
(* hub_initialize: everybody with an address is connected, nothing is heard. *)

Init ==
  /\ hubActive = TRUE
  /\ cleanup = "none"
  /\ smallestPostGameTick = Horizon + 1
  /\ connected \in (SUBSET Players) \ {{}}
  /\ Standalone \/ LocalPlayer \in connected
  /\ addressKnown = {LocalPlayer} \cap Players
  /\ referencePlayer = IF Standalone
                       THEN CHOOSE i \in connected : \A j \in connected : i <= j
                       ELSE LocalPlayer
  /\ smallestUnacknowledgedTick = [i \in Players |-> FirstTick]
  /\ netDeadTick = [i \in Players |-> FirstTick - 1]
  /\ silence = [i \in Players |-> 0]
  /\ flagsReadTick = [i \in Players |-> FirstTick]
  /\ flagsWriteTick = [i \in Players |-> FirstTick]
  /\ playerDataDisposition = [t \in Ticks |-> {}]
  /\ playerReflectedFlags = [t \in Ticks |-> {}]
  /\ dispositionReadTick = FirstTick
  /\ dispositionWriteTick = FirstTick
  /\ smallestIncompleteTick = FirstTick
  /\ smallestUnsentTick = FirstTick
  /\ laggingPlayers = {}
  /\ sinceRealUpdate = 0
  /\ sinceSent = 0
  /\ scan = NONE
  /\ died = FALSE
  /\ dying = NONE
  /\ suspended = NONE
  /\ failedAsserts = {}

\* No handler holds the mytm mutex, and the program has not aborted.
MutexFree == scan = NONE /\ failedAsserts = {}

-----------------------------------------------------------------------------
(* hub_received_network_packet                                              *)

\* hub_received_identification_packet: the first one tells p's address.
ReceiveIdentification(p) ==
  /\ MutexFree
  /\ hubActive
  /\ p \notin addressKnown
  /\ addressKnown' = addressKnown \cup {p}
  /\ UNCHANGED <<hubActive, connected, referencePlayer, netDeadTick, silence, queueVars,
                 sendVars, lagVars, tickVars, cleanupVars, failedAsserts>>

\* The room in the queue is not looked at.
FaultyEnqueueable(p, start, end, dispositionRead, flagsRead) ==
  IF start > flagsWriteTick[p] THEN 0 ELSE Larger(end - flagsWriteTick[p], 0)

\* How many of the flags for the ticks start .. end - 1 the hub can enqueue, once
\* the acknowledgement has moved the read ticks.
Enqueueable(p, start, end, dispositionRead, flagsRead) ==
  LET size   == flagsWriteTick[p] - flagsRead
      useful == Larger(end - flagsWriteTick[p], 0)
      room   == IF dispositionRead < StartingTick /\ size > PregameWindowSize
                THEN 0
                ELSE QueueSize - size
  IN  IF start > flagsWriteTick[p] THEN 0 ELSE Smaller(useful, room)

\* What game data from p comes to, once it is known what the acknowledgement does (a), up to
\* which tick flags are enqueued (end2) and what providing them does (b).
BookGameData(p, ack, a, end2, b) ==
  LET late  == ack < smallestUnacknowledgedTick[p]
      acks  == [smallestUnacknowledgedTick EXCEPT ![p] = Larger(ack, @)]
      first == flagsWriteTick[p]
      fails == a.failed \cup (IF end2 > first THEN b.failed ELSE {})
               \cup (IF end2 > a.read + QueueSize THEN {1089} ELSE {})
      sends == /\ end2 > first /\ b.completes
               /\ b.incomplete - smallestUnsentTick >= SendPeriod
  IN  IF fails # {} THEN Abort(fails)
      ELSE /\ smallestUnacknowledgedTick' = acks
           /\ silence' = [silence EXCEPT ![p] = IF late THEN @ ELSE 0]
           /\ dispositionReadTick' = a.read
           /\ flagsReadTick' = a.flags
           /\ hubActive' = (late \/ SomeoneStillActive(acks))
           /\ flagsWriteTick' = [flagsWriteTick EXCEPT ![p] = end2]
           /\ dispositionWriteTick' = Larger(dispositionWriteTick, end2)
           /\ playerReflectedFlags' = Dequeued(playerReflectedFlags, a.read)
           /\ IF end2 > first
              THEN /\ playerDataDisposition' = b.disposition
                   /\ smallestIncompleteTick' = b.incomplete
                   /\ laggingPlayers' = laggingPlayers \ {p}
                   /\ sinceRealUpdate' = IF b.completes THEN 0 ELSE sinceRealUpdate
              ELSE /\ playerDataDisposition' = a.disposition
                   /\ UNCHANGED <<smallestIncompleteTick, lagVars>>
           /\ SendPacketsIf(sends, b.incomplete)
           /\ UNCHANGED <<playerVars, tickVars, cleanupVars, failedAsserts>>

\* hub_received_game_data_packet_v1: an acknowledgement, then flags for the ticks
\* start .. end - 1 (none when start = end).  An ack of the future drops the packet;
\* an old one is ignored, and says nothing about the player being alive.
ReceiveGameData(p, ack, start, end) ==
  /\ MutexFree
  /\ hubActive
  /\ p \in connected
  /\ p \in addressKnown
  /\ ack <= smallestIncompleteTick
  /\ \E a \in {IF ack < smallestUnacknowledgedTick[p]
               THEN [disposition |-> playerDataDisposition, read |-> dispositionReadTick,
                     flags |-> flagsReadTick, failed |-> {}]
               ELSE Acknowledged(playerDataDisposition, p, ack)} :
     \E end2 \in {flagsWriteTick[p] + Enqueueable(p, start, end, a.read, a.flags[p])} :
     \E b \in {Provided(a.disposition, p, flagsWriteTick[p], end2)} :
       BookGameData(p, ack, a, end2, b)

-----------------------------------------------------------------------------
(* hub_tick                                                                 *)

SilenceCap == 1 + Larger(PregameTicksBeforeNetDeath, InGameTicksBeforeNetDeath)

HubTickBegin ==
  /\ MutexFree
  /\ cleanup # "done"
  /\ scan' = 0
  /\ died' = FALSE
  /\ silence' = [i \in Players |-> IF i \in connected
                                   THEN Smaller(silence[i] + 1, SilenceCap) ELSE 0]
  /\ sinceRealUpdate' = Smaller(sinceRealUpdate + 1, MinimumSendPeriod)
  /\ sinceSent' = Smaller(sinceSent + 1, RecoverySendPeriod)
  /\ UNCHANGED <<hubActive, playerVars, queueVars, smallestUnsentTick, laggingPlayers,
                 dying, suspended, cleanupVars, failedAsserts>>

TicksBeforeNetDeath(i) ==
  IF smallestUnacknowledgedTick[i] < StartingTick
  THEN PregameTicksBeforeNetDeath ELSE InGameTicksBeforeNetDeath

AcksTooLate(i) ==
  /\ i # LocalPlayer
  /\ smallestUnacknowledgedTick[i] >= StartingTick
  /\ smallestUnacknowledgedTick[referencePlayer] - smallestUnacknowledgedTick[i] >= QueueSize

\* Only late acknowledgements kill.
FaultyNetDead(i) == i \in connected /\ AcksTooLate(i)

NetDead(i) == i \in connected /\ (silence[i] > TicksBeforeNetDeath(i) \/ AcksTooLate(i))

\* The loop passes over players that are not netdead without changing anything.
ScanSurvivors ==
  LET rest == {i \in Players : i >= scan /\ NetDead(i)}
  IN  /\ scan \in Players /\ dying = NONE /\ failedAsserts = {}
      /\ ~NetDead(scan)
      /\ scan' = IF rest = {} THEN NumPlayers ELSE CHOOSE i \in rest : \A j \in rest : i <= j
      /\ UNCHANGED <<hubActive, silence, playerVars, queueVars, sendVars, lagVars,
                     died, dying, suspended, cleanupVars, failedAsserts>>

\* Falls back on the first player of the topology, in the game or not.
FaultyFallbackReference(remaining) == 0

\* The reference player of a standalone hub that has just lost it.
FallbackReference(remaining) ==
  IF remaining = {} THEN 0 ELSE CHOOSE i \in remaining : \A j \in remaining : j <= i

\* make_player_netdead up to its housekeeping.  The standalone hub goes on to bury the
\* only player left, whose housekeeping comes first.
ScanNetDead ==
  LET remaining == connected \ {scan}
      buried    == IF Standalone /\ Cardinality(remaining) = 1
                   THEN connected ELSE {scan}
  IN  /\ scan \in Players /\ dying = NONE /\ failedAsserts = {}
      /\ NetDead(scan)
      /\ netDeadTick' = [i \in Players |-> IF i \in buried THEN smallestIncompleteTick
                                                           ELSE netDeadTick[i]]
      /\ connected' = connected \ buried
      /\ silence' = [i \in Players |-> IF i \in buried THEN 0 ELSE silence[i]]
      /\ dying' = IF buried = {scan} THEN scan ELSE CHOOSE i \in remaining : TRUE
      /\ suspended' = IF buried = {scan} THEN NONE ELSE scan
      /\ died' = TRUE
      /\ referencePlayer' = IF Standalone /\ referencePlayer \in buried
                            THEN FallbackReference(connected \ buried) ELSE referencePlayer
      /\ UNCHANGED <<hubActive, addressKnown, queueVars, sendVars, lagVars,
                     scan, cleanupVars, failedAsserts>>

\* The housekeeping of make_player_netdead: pretend he has provided every tick the hub
\* knows of, and has acknowledged every tick complete before that.
BookNetDeath ==
  LET p == dying
      b == Provided(playerDataDisposition, p, flagsWriteTick[p], dispositionWriteTick)
      a == Acknowledged(b.disposition, p, smallestIncompleteTick)
      acks == [smallestUnacknowledgedTick EXCEPT ![p] = smallestIncompleteTick]
  IN  /\ dying # NONE /\ failedAsserts = {}
      /\ IF a.failed \cup b.failed # {} THEN Abort(a.failed \cup b.failed)
         ELSE /\ playerDataDisposition' = a.disposition
              /\ smallestIncompleteTick' = b.incomplete
              /\ sinceRealUpdate' = IF b.completes THEN 0 ELSE sinceRealUpdate
              /\ laggingPlayers' = IF flagsWriteTick[p] < dispositionWriteTick
                                   THEN laggingPlayers \ {p} ELSE laggingPlayers
              /\ smallestUnacknowledgedTick' = acks
              /\ dispositionReadTick' = a.read
              /\ flagsReadTick' = a.flags
              /\ playerReflectedFlags' = Dequeued(playerReflectedFlags, a.read)
              /\ hubActive' = (hubActive /\ SomeoneStillActive(acks))
              /\ dying' = suspended
              /\ suspended' = NONE
              /\ scan' = IF suspended = NONE THEN scan + 1 ELSE scan
              /\ UNCHANGED <<silence, playerVars, flagsWriteTick, dispositionWriteTick,
                             sendVars, died, cleanupVars, failedAsserts>>

-----------------------------------------------------------------------------
(* hub_tick after its loop: make up flags for laggards, then send.          *)

ReducesBandwidth == BandwidthReduction /\ dispositionReadTick >= StartingTick

MayMakeUp ==
  /\ ReducesBandwidth
  /\ MinimumSendPeriod >= SendPeriod
  /\ smallestIncompleteTick < dispositionWriteTick

Playing == {i \in connected : StartingTick > netDeadTick[i]}

NotReady == {i \in Playing : i \in playerDataDisposition[smallestIncompleteTick]}

\* Players do not become laggards again.
FaultyLaggards == laggingPlayers

Laggards ==
  IF MayMakeUp /\ sinceRealUpdate >= MinimumSendPeriod
  THEN laggingPlayers \cup (NotReady \ {LocalPlayer})
  ELSE laggingPlayers

\* make_up_flags_for_first_incomplete_tick: whose flags the tick still lacks; the
\* dead and the never connected count as well.
Missing == {i \in Players : flagsWriteTick[i] = smallestIncompleteTick}

MakesUpFlags ==
  /\ MayMakeUp
  /\ Laggards # {}
  /\ Cardinality(Playing \ NotReady) > Cardinality(NotReady)
  /\ LocalPlayer \notin Missing
  /\ Missing \subseteq Laggards

HubTickEnd ==
  LET tick  == smallestIncompleteTick
      full  == {i \in Missing : flagsWriteTick[i] - flagsReadTick[i] >= QueueSize}
      sends == ReducesBandwidth \/ died \/ sinceSent >= RecoverySendPeriod
  IN  /\ scan = NumPlayers /\ dying = NONE /\ failedAsserts = {}
      /\ IF MakesUpFlags /\ full # {} THEN Abort({1067})
         ELSE /\ laggingPlayers' = Laggards
              /\ IF MakesUpFlags
                 THEN /\ playerReflectedFlags' = [playerReflectedFlags EXCEPT ![tick] = @ \cup Missing]
                      /\ flagsWriteTick' = [i \in Players |-> IF i \in Missing
                                            THEN tick + 1 ELSE flagsWriteTick[i]]
                      /\ playerDataDisposition' = [playerDataDisposition EXCEPT ![tick] = connected]
                      /\ smallestIncompleteTick' = tick + 1
                      /\ sinceRealUpdate' = 0
                 ELSE UNCHANGED <<playerReflectedFlags, flagsWriteTick, playerDataDisposition,
                                  smallestIncompleteTick, sinceRealUpdate>>
              /\ SendPacketsIf(sends, smallestIncompleteTick')
              /\ scan' = NONE
              /\ died' = FALSE
              /\ UNCHANGED <<hubActive, silence, playerVars, smallestUnacknowledgedTick,
                             flagsReadTick, dispositionReadTick, dispositionWriteTick,
                             dying, suspended, cleanupVars, failedAsserts>>

-----------------------------------------------------------------------------
(* hub_cleanup                                                              *)

HubCleanup(graceful, postGameTick) ==
  /\ MutexFree
  /\ cleanup = "none"
  /\ cleanup' = "waiting"
  /\ IF graceful
     THEN /\ smallestPostGameTick' = postGameTick
          /\ hubActive' = (hubActive /\ \E i \in connected :
                                          smallestUnacknowledgedTick[i] < postGameTick)
     ELSE hubActive' = FALSE /\ UNCHANGED smallestPostGameTick
  /\ UNCHANGED <<silence, playerVars, queueVars, sendVars, lagVars, tickVars, failedAsserts>>

\* The wait is over: the tick task is removed and the state cleared.
HubCleanupEnd ==
  /\ MutexFree
  /\ cleanup = "waiting"
  /\ ~hubActive
  /\ cleanup' = "done"
  /\ UNCHANGED <<hubActive, smallestPostGameTick, silence, playerVars, queueVars, sendVars,
                 lagVars, tickVars, failedAsserts>>

-----------------------------------------------------------------------------
(* The hub among spokes that only acknowledge what has been sent to them and *)
(* make flags below the horizon; packets may be lost, repeated and reordered. *)

HubTick == HubTickBegin \/ ScanSurvivors \/ ScanNetDead \/ BookNetDeath \/ HubTickEnd

SpokeSends(p, ack, start, end) ==
  /\ ack <= smallestUnsentTick
  /\ start <= end
  /\ ReceiveGameData(p, ack, start, end)

Next ==
  \/ \E p \in Players : ReceiveIdentification(p)
  \/ \E p \in Players, ack, start, end \in FirstTick .. Horizon : SpokeSends(p, ack, start, end)
  \/ HubTick
  \/ \E graceful \in BOOLEAN, postGameTick \in PostGameTicks :
       HubCleanup(graceful, postGameTick)
  \/ HubCleanupEnd

Spec == Init /\ [][Next]_hubVars

\* The tick task runs for as long as it is not removed, and hub_cleanup's loop ends
\* once it sees the hub inactive.
FairSpec == Spec /\ WF_hubVars(HubTick) /\ WF_hubVars(HubCleanupEnd)

-----------------------------------------------------------------------------
(* Properties                                                               *)

TypeOK ==
  /\ hubActive \in BOOLEAN
  /\ cleanup \in {"none", "waiting", "done"}
  /\ smallestPostGameTick \in FirstTick .. Horizon + 1
  /\ connected \in SUBSET Players
  /\ addressKnown \in SUBSET Players
  /\ referencePlayer \in Players
  /\ smallestUnacknowledgedTick \in [Players -> FirstTick .. Horizon]
  /\ netDeadTick \in [Players -> FirstTick - 1 .. Horizon]
  /\ silence \in [Players -> 0 .. SilenceCap]
  /\ flagsReadTick \in [Players -> FirstTick .. Horizon]
  /\ flagsWriteTick \in [Players -> FirstTick .. Horizon]
  /\ playerDataDisposition \in [Ticks -> SUBSET Players]
  /\ playerReflectedFlags \in [Ticks -> SUBSET Players]
  /\ dispositionReadTick \in FirstTick .. Horizon
  /\ dispositionWriteTick \in FirstTick .. Horizon
  /\ smallestIncompleteTick \in FirstTick .. Horizon
  /\ smallestUnsentTick \in FirstTick .. Horizon
  /\ laggingPlayers \in SUBSET Players
  /\ sinceRealUpdate \in 0 .. MinimumSendPeriod
  /\ sinceSent \in 0 .. RecoverySendPeriod
  /\ scan \in Players \cup {NONE, NumPlayers}
  /\ died \in BOOLEAN
  /\ dying \in Players \cup {NONE}
  /\ suspended \in Players \cup {NONE}
  /\ failedAsserts \in SUBSET {959, 963, 983, 988, 994, 1067, 1089, 1097, 1109}

\* Players whose bits the disposition queue still carries: a dying player's are taken
\* out by its housekeeping.
Booked == connected \cup ({dying, suspended} \ {NONE})

\* The comment over sPlayerDataDisposition, made exact: a complete tick waits for the
\* players who have not acknowledged it, an incomplete one for those whose flags are
\* missing, and no tick stays queued when nobody is awaited.
DispositionIsExact ==
  /\ \A t \in Ticks :
       /\ dispositionReadTick <= t /\ t < smallestIncompleteTick =>
            playerDataDisposition[t] = {i \in Booked : smallestUnacknowledgedTick[i] <= t}
       /\ smallestIncompleteTick <= t /\ t < dispositionWriteTick =>
            playerDataDisposition[t] = {i \in Booked : flagsWriteTick[i] <= t}
       /\ dispositionReadTick <= t /\ t < dispositionWriteTick /\ Booked # {} =>
            playerDataDisposition[t] # {}

\* How the queues lie, lines 195-197 and 249 corrected: the disposition queue spans the
\* smallest incomplete tick and never exceeds its capacity; a player's flags queue starts
\* with it or, once dead, is used up; everybody awaited stands between the two.
QueuesLineUp ==
  /\ dispositionReadTick <= smallestIncompleteTick
  /\ smallestIncompleteTick <= dispositionWriteTick
  /\ smallestUnsentTick <= smallestIncompleteTick
  /\ dispositionWriteTick <= dispositionReadTick + QueueSize
  /\ \A i \in Players :
       /\ flagsReadTick[i] = Smaller(dispositionReadTick, flagsWriteTick[i])
       /\ flagsWriteTick[i] <= dispositionWriteTick
       /\ i \in Booked =>
            /\ dispositionReadTick <= smallestUnacknowledgedTick[i]
            /\ smallestUnacknowledgedTick[i] <= smallestIncompleteTick
            /\ smallestIncompleteTick <= flagsWriteTick[i]
       /\ i \notin connected => netDeadTick[i] <= flagsWriteTick[i]

\* The asserts of the housekeeping in lines 959, 983, 994, 1097 and 1109 and those of the
\* queues it fills (1067, 1089) hold whatever the spokes send and whoever drops out. The
\* two about sFlagSendTimeQueue, 963 and 988, are left out: two deaths in one tick make the
\* first of them fail (OnlySentTicksAcknowledged), and the second would follow it.
HousekeepingAssertsHold ==
  failedAsserts \cap {959, 983, 994, 1067, 1089, 1097, 1109} = {}

\* The assert on line 963 of player_acknowledged_up_to_tick, theTick <
\* sFlagSendTimeQueue.getWriteTick(): as long as the local player is in the game, nobody
\* is booked as having acknowledged a tick that was never sent.
OnlySentTicksAcknowledged == LocalPlayer \in connected => 963 \notin failedAsserts

\* Everything send_packets may have to encode is still queued: for every connected spoke
\* the ticks it has not acknowledged, of every player who contributed to them.
KeepsWhatItMayResend ==
  \A i \in connected, t \in Ticks :
    smallestUnacknowledgedTick[i] <= t /\ t < smallestIncompleteTick =>
      /\ dispositionReadTick <= t /\ t < dispositionWriteTick
      /\ \A j \in Players : j \in connected \/ t < netDeadTick[j] =>
           flagsReadTick[j] <= t /\ t < flagsWriteTick[j]

\* The assert on line 959 by itself: whoever acknowledges a tick was awaited for it.
OnlyAwaitedAcksBooked == 959 \notin failedAsserts

\* The standalone hub measures everybody's acknowledgements and timing against a player
\* who is still in the game, as long as there is one.
ReferenceIsInTheGame == Standalone /\ connected # {} => referencePlayer \in connected

\* What has been sent stands: a tick below the unsent one is never completed again or
\* given other made-up flags, and no death is dated before it.
SentTicksStand ==
  [][ /\ smallestIncompleteTick' >= smallestIncompleteTick
      /\ \A t \in Ticks : dispositionReadTick' <= t /\ t < smallestUnsentTick =>
           playerReflectedFlags'[t] = playerReflectedFlags[t]
      /\ \A i \in Players : netDeadTick'[i] # netDeadTick[i] =>
           netDeadTick'[i] >= smallestUnsentTick /\ i \in connected /\ i \notin connected'
    ]_hubVars

\* A player is heard from again and again, or is dropped, or the hub is shut down: no
\* silent player stays in the game.
SilentPlayersLeave ==
  \A i \in Players : \/ []<>(i \in connected /\ silence[i] = 0)
                     \/ <>[](i \notin connected)
                     \/ <>(cleanup = "done" \/ failedAsserts # {})

\* With bandwidth reduction, a tick for which the local player and a majority have sent
\* their flags does not stay incomplete, however slow or silent the others are, provided
\* that nobody who has left lacks it: a death takes its player off the laggards (line 1102)
\* but leaves his queue where it was, and line 1032 then makes up no flags for anybody.
MajorityNeverStalls ==
  \A t \in Ticks :
    ~<>[](/\ smallestIncompleteTick = t /\ MayMakeUp
          /\ Cardinality(Playing \ NotReady) > Cardinality(NotReady)
          /\ LocalPlayer \notin Missing /\ Missing \subseteq connected
          /\ cleanup # "done" /\ failedAsserts = {})
=============================================================================
