----------------------------- MODULE StarGame ------------------------------
(***************************************************************************)
(* A networked game: the hub, a spoke for every player and the datagrams   *)
(* between them.  The gatherer's machine runs the hub and the local        *)
(* spoke, which hand each other their frames directly, at the end of the   *)
(* handler that wrote them; all other frames are datagrams, which may be   *)
(* lost, delayed, reordered and repeated.                                  *)
(*                                                                         *)
(* The machines run side by side, but nothing they do between the first    *)
(* and the last step of a hub_tick bears on it, so they wait for its end;  *)
(* and nothing is said of the time after a failed assert of the hub.       *)
(*                                                                         *)
(* What the game is for: every machine plays the same flags of every       *)
(* player in the same tick.  Decided says what the hub has settled,        *)
(* gameFlags what each machine plays.                                      *)
(***************************************************************************)
EXTENDS StarHub, StarSpoke

CONSTANTS
  InFlight,       \* bound: how many of the last datagrams of a sender may still arrive
  Adjustments,    \* timing adjustments the hub may ask remote players for
  RecoveryTicks,  \* maxTicks: ticks in a large update
  IncrementalTicks, \* ticks in an incremental update, 3
  MayFallSilent,  \* bound: the hub hears from all other players before it drops them
  MayMissTheHub,  \* bound: all other spokes hear from the hub before they give it up
  Leavers,        \* bound: players who may leave the game before it ends
  GameReaders     \* bound: players whose game takes flags from the action queues

ASSUME GameConstants ==
  /\ InFlight \in Nat \ {0}
  /\ Adjustments \subseteq Int
  /\ RecoveryTicks \in Nat /\ IncrementalTicks \in Nat

VARIABLES
  toHub,          \* frames of each spoke that may still arrive, the newest last
  toSpoke,        \* frames of the hub for each spoke, likewise
  madeUp          \* players for whom the hub has ever made up flags of a tick

wires == <<toHub, toSpoke>>
gameVars == <<hubVars, spokeVars, wires, madeUp>>

-----------------------------------------------------------------------------
(* Frames of the hub                                                        *)

\* The flags of a tick are sent before everybody's are there.
FaultyUpdateRange(i, large) == <<smallestUnacknowledgedTick[i], dispositionWriteTick>>

\* The first tick and the tick after the last one sent to player i: everything it has not
\* acknowledged or, to reduce bandwidth, a large update or just the last ticks.
UpdateRange(i, large) ==
  LET acked == smallestUnacknowledgedTick[i]
  IN  IF ~ReducesBandwidth THEN <<acked, smallestIncompleteTick>>
      ELSE IF large THEN <<acked, Smaller(acked + RecoveryTicks, smallestIncompleteTick)>>
      ELSE <<Larger(smallestIncompleteTick - IncrementalTicks, acked), smallestIncompleteTick>>

\* Players whose next frame depends on the size of the update.
RangeMatters == {i \in connected \cap addressKnown : UpdateRange(i, TRUE) # UpdateRange(i, FALSE)}

\* Whose flags are encoded for a tick: everybody's who still contributed to it; player i's
\* own only if they are reflected.
Contributes(j, tick) == j \in connected \/ tick < netDeadTick[j]

\* Acknowledges whatever anybody has sent.
FaultyAcknowledgement(i) == dispositionWriteTick

Acknowledgement(i) == flagsWriteTick[i]

HubFrame(i, large, adjustment) ==
  LET ticks    == UpdateRange(i, large)[1] .. UpdateRange(i, large)[2] - 1
      reflects == \E t \in ticks : i \in playerReflectedFlags[t]
      sent(t)  == {j \in Players : Contributes(j, t) /\ (j = i => reflects)}
  IN  [ack        |-> Acknowledgement(i),
       adjustment |-> adjustment,
       deaths     |-> {<<j, netDeadTick[j]>> : j \in
                         {k \in Players : smallestUnacknowledgedTick[i] <= netDeadTick[k]}},
       flags      |-> [t \in {u \in ticks : sent(u) # {}} |->
                         [j \in sent(t) |-> IF j \in playerReflectedFlags[t]
                                            THEN MadeUp(t) ELSE Real(t)]],
       reflects   |-> reflects]

\* A datagram more, of which the oldest may have to go.
Sent(wire, frame) ==
  IF Len(wire) < InFlight THEN Append(wire, frame) ELSE Append(Tail(wire), frame)

\* send_packets was called in this step.
HubSends ==
  \/ smallestUnsentTick' # smallestUnsentTick
  \/ scan = NumPlayers /\ scan' = NONE /\ sinceSent' = 0

\* What the hub's step puts on the wires; asks is what it asks of some of the players.
HubWires(large, asks) ==
  toSpoke' = IF HubSends
             THEN [i \in Players |->
                    IF i \in connected /\ i \in addressKnown
                    THEN Sent(toSpoke[i],
                              HubFrame(i, i \in large, IF i \in DOMAIN asks THEN asks[i] ELSE 0)')
                    ELSE toSpoke[i]]
             ELSE toSpoke

\* Whatever the hub has ever made up.
RemembersMadeUp == madeUp' = [t \in Ticks |-> madeUp[t] \cup playerReflectedFlags'[t]]

-----------------------------------------------------------------------------

Local == {LocalPlayer} \cap Players
Remote == Players \ Local

\* A frame that the hub and the local spoke hand each other is not kept waiting.
NothingLocal == \A p \in Local : toHub[p] = << >> /\ toSpoke[p] = << >>

GameInit ==
  /\ Init
  /\ connected = Players \ Zombies
  /\ SpokeInit(connected)
  /\ toHub = [p \in Players |-> << >>]
  /\ toSpoke = [p \in Players |-> << >>]
  /\ madeUp = [t \in Ticks |-> {}]

HubStep(action) ==
  /\ action
  /\ \E large \in IF HubSends THEN SUBSET RangeMatters' ELSE {{}},
        asks \in IF HubSends THEN [connected' \ Local -> Adjustments \cup {0}] ELSE {<< >>} :
       HubWires(large, asks)
  /\ RemembersMadeUp
  /\ UNCHANGED spokeVars

\* The hub handles a frame of p.
HubHandles(p, f) ==
  \/ f.type = "identification" /\ ReceiveIdentification(p)
  \/ f.type = "game data" /\ ReceiveGameData(p, f.ack, f.start, f.end)

HubReceivesRemote(p) ==
  \E k \in 1 .. Len(toHub[p]) :
    /\ NothingLocal
    /\ HubStep(HubHandles(p, toHub[p][k]))
    /\ UNCHANGED toHub

HubIgnores(p, f) ==
  \/ ~hubActive
  \/ f.type = "identification" /\ p \in addressKnown
  \/ f.type = "game data" /\ (p \notin connected \/ f.ack > smallestIncompleteTick)

\* Handled or ignored, a local frame is used up.
HubReceivesLocal(p) ==
  /\ toHub[p] # << >> /\ MutexFree
  /\ toHub' = [toHub EXCEPT ![p] = << >>]
  /\ IF HubIgnores(p, Head(toHub[p]))
     THEN UNCHANGED <<hubVars, spokeVars, toSpoke, madeUp>>
     ELSE HubStep(HubHandles(p, Head(toHub[p])))

\* The hub's next tick does not drop p for his silence.  Nothing is heard of a player who
\* has left; one who has yet to say who he is has time to hear the hub and answer.
HeardInTime(p) ==
  \/ ~spokeActive[p]
  \/ LET answering == IF p \in addressKnown THEN 0 ELSE RecoverySendPeriod
     IN  silence[p] + answering < TicksBeforeNetDeath(p)

HubTicks ==
  /\ NothingLocal
  /\ scan = NONE => \A p \in connected \ MayFallSilent : HeardInTime(p)
  /\ HubStep(HubTick)
  /\ UNCHANGED toHub

SpokeReceivesRemote(p) ==
  \E k \in 1 .. Len(toSpoke[p]) :
    /\ NothingLocal /\ MutexFree
    /\ SpokeReceives(p, toSpoke[p][k])
    /\ UNCHANGED <<hubVars, wires, madeUp>>

SpokeReceivesLocal(p) ==
  /\ toSpoke[p] # << >> /\ MutexFree
  /\ toSpoke' = [toSpoke EXCEPT ![p] = << >>]
  /\ IF spokeConnected[p] /\ Running(p)
     THEN SpokeReceives(p, Head(toSpoke[p])) ELSE UNCHANGED spokeVars
  /\ UNCHANGED <<hubVars, toHub, madeUp>>

SpokeTicks(p) ==
  /\ NothingLocal /\ MutexFree
  /\ p \in MayMissTheHub \/ hubSilence[p] < TicksBeforeSpokeNetDeath(p)
  /\ SpokeTick(p)
  /\ toHub' = IF SendsGameData(p)
              THEN [toHub EXCEPT ![p] = Sent(@, GameDataFrame(p)')]
              ELSE IF SendsIdentification(p)
              THEN [toHub EXCEPT ![p] = Sent(@, IdentificationFrame)]
              ELSE toHub
  /\ UNCHANGED <<hubVars, toSpoke, madeUp>>

SpokeSilenced(p) ==
  /\ NothingLocal /\ MutexFree
  /\ p \in MayMissTheHub
  /\ SpokeGivesUp(p)
  /\ UNCHANGED <<hubVars, wires, madeUp>>

MainThread(p) ==
  /\ NothingLocal /\ MutexFree
  /\ ForgetConfirmed(p) \/ (p \in GameReaders /\ GameAdvances(p))
  /\ UNCHANGED <<hubVars, wires, madeUp>>

\* UnSync: a player leaves, or the game is over once its tick is reached.
SpokeLeaves(p) ==
  /\ NothingLocal /\ MutexFree
  /\ \/ p \in Leavers
     \/ \E t \in PostGameTicks : \A q \in Players \ Zombies : GameWriteTick(p, q) >= t
  /\ SpokeCleanup(p)
  /\ toHub' = [toHub EXCEPT ![p] = Sent(@, GameDataFrame(p))]
  /\ UNCHANGED <<hubVars, toSpoke, madeUp>>

HubLeaves ==
  /\ NothingLocal
  /\ \A p \in Local : ~spokeActive[p]
  /\ \/ \E graceful \in BOOLEAN, t \in PostGameTicks : HubCleanup(graceful, t)
     \/ HubCleanupEnd
  /\ UNCHANGED <<spokeVars, wires, madeUp>>

GameNext ==
  \/ HubTicks \/ HubLeaves
  \/ \E p \in Remote : HubReceivesRemote(p) \/ SpokeReceivesRemote(p)
  \/ \E p \in Local : HubReceivesLocal(p) \/ SpokeReceivesLocal(p)
  \/ \E p \in Players : SpokeTicks(p) \/ SpokeSilenced(p) \/ MainThread(p) \/ SpokeLeaves(p)

GameSpec == GameInit /\ [][GameNext]_gameVars

\* The wires are good enough for the limits on silence: who has lost a datagram is due to
\* send again before it has to give up on the other end.
HubSendsAgain(p) ==
  p \in MayFallSilent \/ silence[p] + RecoverySendPeriod <= TicksBeforeNetDeath(p)
SpokeSendsAgain(p) ==
  \/ p \in MayMissTheHub
  \/ hubSilence[p] + Larger(SpokeRecoverySendPeriod, IdentificationPeriod)
       <= TicksBeforeSpokeNetDeath(p)

\* A datagram that goes on arriving is not lost; for liveness, loss has to be an event.
DatagramLost ==
  /\ NothingLocal /\ MutexFree
  /\ \E p \in Remote :
       \/ /\ toHub[p] # << >> /\ SpokeSendsAgain(p)
          /\ toHub' = [toHub EXCEPT ![p] = Tail(@)] /\ UNCHANGED toSpoke
       \/ /\ toSpoke[p] # << >> /\ HubSendsAgain(p)
          /\ toSpoke' = [toSpoke EXCEPT ![p] = Tail(@)] /\ UNCHANGED toHub
  /\ UNCHANGED <<hubVars, spokeVars, madeUp>>

\* Tick tasks and main threads get their turn, a local frame is handed over at once, and of
\* the datagrams that a sender goes on sending some arrive.
Fairness ==
  /\ SF_gameVars(HubTicks)
  /\ \A p \in Players : SF_gameVars(SpokeTicks(p) \/ SpokeSilenced(p)) /\ SF_gameVars(MainThread(p))
  /\ \A p \in Local : WF_gameVars(HubReceivesLocal(p)) /\ WF_gameVars(SpokeReceivesLocal(p))
  /\ \A p \in Remote : SF_gameVars(HubReceivesRemote(p)) /\ SF_gameVars(SpokeReceivesRemote(p))

FairGameSpec == GameInit /\ [][GameNext \/ DatagramLost]_gameVars /\ Fairness

-----------------------------------------------------------------------------
(* Properties                                                               *)

InGame == Players \ Zombies

\* The state of the spokes is well typed, and their queues never hold more than fits: the
\* flags not yet acknowledged (line 58), the predicted ones (line 63), those the game has
\* not taken.
GameTypeOK ==
  /\ SpokeTypeOK
  /\ madeUp \in [Ticks -> SUBSET Players]

\* What the hub has settled for a tick that is complete.
Decided(q, t) ==
  IF q \notin connected /\ t >= netDeadTick[q] THEN NetDeadFlags
  ELSE IF q \in madeUp[t] THEN MadeUp(t) ELSE Real(t)

\* What p has received is settled, and p plays it as the hub has settled it.
PlaysWhatIsDecided(p) ==
  \A q \in InGame :
    \A t \in StartingTick .. smallestUnreceivedTick[p] - 1 :
      /\ t < smallestIncompleteTick
      /\ gameFlags[p][q][t - StartingTick + 1] = Decided(q, t)

\* Every machine that is, or was, in touch with the hub plays for every player what the
\* hub has settled, and nothing the hub has not settled.
Lockstep == \A p \in InGame : PlaysWhatIsDecided(p)

\* As long as p knows of somebody else in the game.
InCompany(p) == \E q \in Players \ {p} : q \in stillConnected[p]

\* The same with full action queues, where a machine that finds itself alone may fill in
\* flags that are still to come (line 434).
LockstepInCompany == \A p \in InGame : InCompany(p) => PlaysWhatIsDecided(p)

\* The asserts of the loop over the ticks of a packet hold (lines 534-536 and 589), and no
\* spoke takes other flags from a packet than the hub has put there ("OOS is likely").
SpokesInStep == \A p \in Players : spokeFailures[p] = {}

\* The same of every spoke that knows of somebody else in the game. Where bandwidth is reduced a
\* machine left alone may meet flags of players it has written off, and line 589 fails.
InStepInCompany == \A p \in Players : InCompany(p) => spokeFailures[p] = {}

\* The two ends of a link agree on what has arrived, whatever is lost, repeated or
\* overtaken: a spoke keeps the flags the hub lacks, and the hub never believes a spoke
\* to have more ticks than it has.
LinksKeepTheirPromises ==
  \A p \in connected : failedAsserts = {} =>
    /\ outgoingReadTick[p] <= flagsWriteTick[p]
    /\ smallestUnacknowledgedTick[p] <= smallestUnreceivedTick[p]

\* A hub that is shut down gracefully has first seen every spoke still in the game receive
\* the game to its end.
EverybodyFinishes ==
  cleanup = "done" /\ smallestPostGameTick <= Horizon =>
    \A p \in connected : smallestUnreceivedTick[p] >= smallestPostGameTick

\* A machine that has taken the tick in which a player died knows him as net dead in its
\* topology, so that the next level is not started with him, as long as there is somebody
\* else in the game.
KnownNetDead(p, q) ==
  q \notin connected /\ smallestUnreceivedTick[p] > Larger(netDeadTick[q], StartingTick) =>
    q \in reallyNetDead[p]
DeathsReachTheTopology == \A p, q \in InGame : connected \ {p} # {} => KnownNetDead(p, q)

\* The comment on lines 425-427 of the spoke: while a player's net dead tick is not reached
\* "we expect that the hub will be sending actual flags in the future to make up the
\* difference", so a spoke in touch with the hub plays nobody as net dead before it.
OnlyTheDeadAreFilledIn ==
  \A p, q \in InGame : spokeConnected[p] =>
    \A k \in 1 .. Len(gameFlags[p][q]) : gameFlags[p][q][k] = NetDeadFlags =>
      q \notin connected /\ StartingTick + k - 1 >= netDeadTick[q]

\* The game as everybody sees it is the lockstep game: what the hub has completed is
\* settled, what a spoke has received is played.
Settled ==
  [k \in 1 .. Larger(smallestIncompleteTick - StartingTick, 0) |->
     [q \in InGame |-> Decided(q, StartingTick + k - 1)]]
Played ==
  [p \in InGame |-> [k \in 1 .. Larger(smallestUnreceivedTick[p] - StartingTick, 0) |->
     [q \in InGame |-> gameFlags[p][q][k]]]]
Game == INSTANCE LockstepGame WITH
  Machines <- InGame,
  Decisions <- [InGame -> {NetDeadFlags} \cup {Real(t) : t \in Ticks} \cup {MadeUp(t) : t \in Ticks}],
  settled <- Settled, played <- Played
PlaysTheLockstepGame == Game!LockstepSpec

\* What StarHub assumes of its environment holds among real spokes: they acknowledge nothing
\* that has not been sent to them, and every frame the hub handles is one it is proved for.
HubIsAmongSpokes == Init /\ [][Next]_hubVars

\* With datagrams lost again and again, but never until one end gives up on the other,
\* every machine comes to the last tick its players make flags for: also when neither end
\* has anything new to send, and when the gatherer has ended the game there and hub_cleanup
\* waits for the others.
EverybodyPlaysOn ==
  \A p \in InGame :
    <>(\/ smallestUnreceivedTick[p] = Horizon
       \/ cleanup # "none" /\ smallestPostGameTick > Horizon)
=============================================================================
