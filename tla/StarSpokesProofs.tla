-------------------------- MODULE StarSpokesProofs --------------------------
(***************************************************************************)
(* The spokes of a networked game: what the two ends of a link owe each    *)
(* other, how the deaths of players reach every machine, and why no        *)
(* machine gets out of step with the hub.                                  *)
(***************************************************************************)
EXTENDS StarGameProofs, FiniteSetTheorems

-----------------------------------------------------------------------------
(* Links.                                                                    *)

\* What p says in a frame on its way stays true: it has received what it acknowledges, and it has
\* made what it offers.
FramePromises(p, f) ==
  f.type = "game data" => f.ack <= smallestUnreceivedTick[p] /\ f.end <= outgoingWriteTick[p]

\* What a machine keeps apart from its queues and its timing.
MachinesTyped ==
  /\ {spokeActive, spokeConnected, heardFromHub} \subseteq [Players -> BOOLEAN]
  /\ {stillConnected, reallyNetDead} \subseteq [Players -> SUBSET Players]
  /\ deadTick \in [Players -> [Players -> FirstTick - 1 .. Horizon]]
  /\ hubSilence \in [Players -> 0 .. HubSilenceCap]
  /\ sinceSpokeSent \in [Players -> 0 .. SpokeRecoverySendPeriod]
  /\ spokeTicker \in [Players -> 0 .. IdentificationPeriod - 1]
  /\ spokeFailures \in [Players -> SUBSET Int]

\* Only players with an action queue play.
ZombiesRest ==
  /\ connected \subseteq InGame
  /\ \A z \in Zombies : netDeadTick[z] = FirstTick - 1 /\ ~spokeActive[z]

\* The hub believes nobody to have received more than he has.
AcksAreTrue ==
  /\ \A p \in Players : \A k \in DOMAIN toHub[p] : FramePromises(p, toHub[p][k])
  /\ \A p \in connected : smallestUnacknowledgedTick[p] <= smallestUnreceivedTick[p]

\* What the hub has of p beyond what p has made, it has made up itself,
MakesUpTheRest ==
  \A p \in Players : \A t \in outgoingWriteTick[p] .. flagsWriteTick[p] - 1 : t \in Ticks /\ p \in madeUp[t]

\* so p has received no further than its own flags are acknowledged, or made up.
ReceivesItsOwn ==
  \A p \in Players : \/ smallestUnreceivedTick[p] <= outgoingReadTick[p]
                     \/ /\ smallestUnreceivedTick[p] - 1 \in Ticks
                        /\ p \in madeUp[smallestUnreceivedTick[p] - 1]

\* Flags are made up only for a laggard behind somebody else.
NobodyLagsAlone ==
  \A t \in Ticks : \A p \in madeUp[t] : \E q \in InGame \ {p} : q \in connected \/ t < netDeadTick[q]

LinksInvariant ==
  /\ MachinesTyped /\ ZombiesRest /\ AcksAreTrue /\ MakesUpTheRest /\ ReceivesItsOwn /\ NobodyLagsAlone

-----------------------------------------------------------------------------
(* Deaths, and what a frame of the hub holds.                                *)

\* Once p has received the tick in which q died it knows, and tells its topology as long as there
\* is somebody else in the game; the dead receive nothing that comes after them, unless they find
\* themselves alone.
DeathsKnown ==
  /\ \A p, q \in InGame : q # p /\ q \notin connected /\ netDeadTick[q] < smallestUnreceivedTick[p] =>
       q \notin stillConnected[p] /\ (connected \ {p} # {} => q \in reallyNetDead[p])
  /\ \A p \in InGame : p \notin connected /\ connected # {} =>
       smallestUnreceivedTick[p] <= netDeadTick[p]

\* A frame for p says whose flags it holds, by what p knows of the others once it has read it:
\* those of everybody not dead in the tick, p's own if they are reflected.
FrameFits(p, f) ==
  /\ p \in InGame
  /\ \A t \in DOMAIN f.flags :
       /\ t < f.ack
       /\ DOMAIN f.flags[t] = {q \in InGame : /\ q \in connected \/ t < netDeadTick[q]
                                              /\ q = p => f.reflects}
       /\ DOMAIN f.flags[t] # {}
       /\ \A q \in InGame : q \notin connected /\ netDeadTick[q] <= t => q \notin StillConnected(p, f)
       /\ p \notin connected => t < netDeadTick[p]
  /\ \A death \in f.deaths : death[1] # p /\ death[1] \in InGame
  /\ f.reflects => \E t \in Ticks : p \in madeUp[t]

FramesFit == \A p \in Players : \A k \in DOMAIN toSpoke[p] : FrameFits(p, toSpoke[p][k])

DeathsInvariant == DeathsKnown /\ FramesFit

-----------------------------------------------------------------------------
(* What the hub takes from the wires.                                        *)

GameDataOf(p) == {toHub[p][k] : k \in {n \in DOMAIN toHub[p] : toHub[p][n].type = "game data"}}

\* Acknowledgements and flags come from the wires, or are made up for the first incomplete tick.
HubTakes ==
  /\ \A i \in connected' : \/ smallestUnacknowledgedTick'[i] = smallestUnacknowledgedTick[i]
                           \/ \E f \in GameDataOf(i) : smallestUnacknowledgedTick'[i] = f.ack
  /\ \A i \in Players : \/ flagsWriteTick'[i] = flagsWriteTick[i]
                        \/ \E f \in GameDataOf(i) : flagsWriteTick'[i] <= f.end
                        \/ /\ flagsWriteTick[i] \in Ticks /\ flagsWriteTick'[i] = flagsWriteTick[i] + 1
                           /\ i \in playerReflectedFlags'[flagsWriteTick[i]]
  /\ \A t \in Ticks : \A i \in playerReflectedFlags'[t] \ playerReflectedFlags[t] :
       BandwidthReduction /\ connected' \ {i} # {}

LEMMA GameDataTakes ==
  ASSUME HubInvariant, NEW p \in Players, NEW ack \in FirstTick .. Horizon,
         NEW start \in FirstTick .. Horizon, NEW end \in FirstTick .. Horizon,
         \E f \in GameDataOf(p) : f.ack = ack /\ f.end = end,
         ReceiveGameData(p, ack, start, end)
  PROVE  HubTakes
<1>1. PICK a, end2, b : BookGameData(p, ack, a, end2, b)
  BY DEF ReceiveGameData
<1>2. /\ \/ UNCHANGED <<smallestUnacknowledgedTick>>
         \/ smallestUnacknowledgedTick' = [smallestUnacknowledgedTick EXCEPT ![p] = Larger(ack, @)]
      /\ UNCHANGED connected
      /\ \/ playerReflectedFlags' = playerReflectedFlags
         \/ playerReflectedFlags' = Dequeued(playerReflectedFlags, dispositionReadTick')
  BY <1>1 DEF BookGameData, Abort, queueVars, playerVars
<1>3. EnqueuesFlags(p, start, end)
  BY GameDataInvariant
<1>4. /\ smallestUnacknowledgedTick \in [Players -> Int] /\ connected \subseteq Players
      /\ playerReflectedFlags \in [Ticks -> SUBSET Players]
  BY Constants DEF HubInvariant, TypeOK
<1>5. \A i \in connected' : \/ smallestUnacknowledgedTick'[i] = smallestUnacknowledgedTick[i]
                            \/ \E f \in GameDataOf(i) : smallestUnacknowledgedTick'[i] = f.ack
  <2>1. Larger(ack, smallestUnacknowledgedTick[p]) \in {ack, smallestUnacknowledgedTick[p]}
    BY DEF Larger
  <2> QED BY <1>2, <1>4, <2>1
<1>6. \A i \in Players : \/ flagsWriteTick'[i] = flagsWriteTick[i]
                         \/ \E f \in GameDataOf(i) : flagsWriteTick'[i] <= f.end
  BY <1>3 DEF EnqueuesFlags
<1>7. \A t \in Ticks : playerReflectedFlags'[t] \subseteq playerReflectedFlags[t]
  BY <1>2, <1>4 DEF Dequeued
<1> QED BY <1>5, <1>6, <1>7 DEF HubTakes

\* The majority that a laggard is behind is somebody.
LEMMA MajorityIsSomebody ==
  ASSUME HubInvariant, MakesUpFlags
  PROVE  Playing \ NotReady # {}
<1>1. IsFiniteSet(NotReady)
  <2>1. IsFiniteSet(Players)
    BY FS_Interval, HubConstants DEF Players
  <2>2. NotReady \subseteq Players
    BY DEF NotReady, Playing, HubInvariant, TypeOK
  <2> QED BY <2>1, <2>2, FS_Subset
<1>2. Cardinality(NotReady) \in Nat
  BY <1>1, FS_CardinalityType
<1>3. Cardinality({}) = 0
  BY FS_EmptySet
<1> QED BY <1>2, <1>3 DEF MakesUpFlags

LEMMA TickTakes ==
  ASSUME ~Standalone, HubInvariant, HubTick
  PROVE  HubTakes
<1>1. /\ playerReflectedFlags \in [Ticks -> SUBSET Players] /\ connected \subseteq Players
      /\ smallestUnacknowledgedTick = [i \in Players |-> smallestUnacknowledgedTick[i]]
      /\ smallestIncompleteTick \in Int /\ dispositionWriteTick \in Int
  BY Constants DEF HubInvariant, TypeOK
<1>2. ASSUME UNCHANGED <<flagsWriteTick>>, \A i \in connected' : smallestUnacknowledgedTick'[i] = smallestUnacknowledgedTick[i],
             \A t \in Ticks : playerReflectedFlags'[t] \subseteq playerReflectedFlags[t]
      PROVE  HubTakes
  BY <1>2 DEF HubTakes
<1>3. CASE HubTickBegin \/ ScanSurvivors \/ ScanNetDead
  <2>1. UNCHANGED <<flagsWriteTick, smallestUnacknowledgedTick, playerReflectedFlags>>
    BY <1>3 DEF HubTickBegin, ScanSurvivors, ScanNetDead, queueVars
  <2> QED BY <1>2, <2>1
<1>4. CASE BookNetDeath
  <2>1. /\ UNCHANGED <<connected, flagsWriteTick>> /\ dying \notin connected
        /\ \/ UNCHANGED <<smallestUnacknowledgedTick, playerReflectedFlags>>
           \/ /\ smallestUnacknowledgedTick' =
                   [smallestUnacknowledgedTick EXCEPT ![dying] = smallestIncompleteTick]
              /\ playerReflectedFlags' = Dequeued(playerReflectedFlags, dispositionReadTick')
    BY <1>4 DEF BookNetDeath, Abort, queueVars, playerVars, HubInvariant, LoopState
  <2>2. \A i \in connected' : smallestUnacknowledgedTick'[i] = smallestUnacknowledgedTick[i]
    BY <1>1, <2>1
  <2>3. \A t \in Ticks : playerReflectedFlags'[t] \subseteq playerReflectedFlags[t]
    BY <1>1, <2>1 DEF Dequeued
  <2> QED BY <1>2, <2>1, <2>2, <2>3
<1>5. CASE HubTickEnd
  <2>1. /\ UNCHANGED <<connected, smallestUnacknowledgedTick>>
        /\ \/ UNCHANGED <<flagsWriteTick, playerReflectedFlags>>
           \/ /\ MakesUpFlags
              /\ playerReflectedFlags' = [playerReflectedFlags EXCEPT ![smallestIncompleteTick] = @ \cup Missing]
              /\ flagsWriteTick' = [i \in Players |-> IF i \in Missing
                                    THEN smallestIncompleteTick + 1 ELSE flagsWriteTick[i]]
    BY <1>5 DEF HubTickEnd, Abort, queueVars, playerVars
  <2>2. CASE UNCHANGED <<flagsWriteTick, playerReflectedFlags>>
    BY <1>2, <2>1, <2>2
  <2>3. CASE /\ MakesUpFlags
             /\ playerReflectedFlags' = [playerReflectedFlags EXCEPT ![smallestIncompleteTick] = @ \cup Missing]
             /\ flagsWriteTick' = [i \in Players |-> IF i \in Missing
                                   THEN smallestIncompleteTick + 1 ELSE flagsWriteTick[i]]
    <3>1. smallestIncompleteTick < dispositionWriteTick
      BY <2>3 DEF MakesUpFlags, MayMakeUp
    <3>2. smallestIncompleteTick \in Ticks
      BY <1>1, <3>1, Constants DEF HubInvariant, TypeOK
    <3>3. \A i \in Players : \/ flagsWriteTick'[i] = flagsWriteTick[i]
                             \/ /\ flagsWriteTick[i] = smallestIncompleteTick
                                /\ flagsWriteTick'[i] = flagsWriteTick[i] + 1
                                /\ i \in playerReflectedFlags'[smallestIncompleteTick]
      BY <1>1, <2>3, <3>2 DEF Missing
    <3>4. PICK q \in Playing : q \notin NotReady
      BY <2>3, MajorityIsSomebody
    <3>5. q \in connected /\ q \notin playerDataDisposition[smallestIncompleteTick]
      BY <3>4 DEF NotReady, Playing
    <3>6. q \notin Missing
      <4>1. playerDataDisposition[smallestIncompleteTick] = {i \in Booked : flagsWriteTick[i] <= smallestIncompleteTick}
        BY <1>1, <3>1, <3>2 DEF HubInvariant, DispositionIsExact
      <4> QED BY <1>1, <3>5, <4>1 DEF Missing, Booked
    <3>7. ASSUME NEW t \in Ticks, NEW i \in playerReflectedFlags'[t] \ playerReflectedFlags[t]
          PROVE  BandwidthReduction /\ connected' \ {i} # {}
      <4>1. i \in Missing
        BY <1>1, <2>3, <3>7
      <4>2. BandwidthReduction
        BY <2>3 DEF MakesUpFlags, MayMakeUp, ReducesBandwidth
      <4> QED BY <2>1, <3>5, <3>6, <4>1, <4>2
    <3> QED BY <2>1, <3>2, <3>3, <3>7 DEF HubTakes
  <2> QED BY <2>1, <2>2, <2>3
<1> QED BY <1>3, <1>4, <1>5 DEF HubTick

LEMMA OtherHubStepsTake ==
  ASSUME \/ \E p \in Players : ReceiveIdentification(p)
         \/ HubCleanupEnd \/ \E graceful \in BOOLEAN, t \in PostGameTicks : HubCleanup(graceful, t)
  PROVE  HubTakes
<1>1. UNCHANGED <<flagsWriteTick, smallestUnacknowledgedTick, playerReflectedFlags>>
  BY DEF ReceiveIdentification, HubCleanupEnd, HubCleanup, queueVars
<1> QED BY <1>1 DEF HubTakes

-----------------------------------------------------------------------------
(* The kinds of steps.                                                       *)

\* The hub takes a frame, scans the players, sends or is cleaned up.
HubAction ==
  /\ HubAdvances /\ HubMoves /\ HubTakes /\ SettledStands /\ OnlyTakenFromHub
  /\ RemembersMadeUp /\ UNCHANGED spokeVars
  /\ \E large, asks : HubWires(large, asks)

\* p takes a frame of the hub.
ReceiptAction(p) ==
  /\ UNCHANGED <<hubVars, madeUp, toHub>> /\ OnlyTakenFromSpokes
  /\ \E k \in DOMAIN toSpoke[p] : SpokeReceives(p, toSpoke[p][k])

\* What p does when it takes nothing.
OwnStep(p) ==
  SpokeTick(p) \/ SpokeGivesUp(p) \/ ForgetConfirmed(p) \/ GameAdvances(p) \/ SpokeCleanup(p)

\* p takes nothing; it may offer what it has, or tell its address.
OwnAction(p) ==
  /\ UNCHANGED <<hubVars, madeUp, toSpoke>>
  /\ OwnStep(p)
  /\ \/ UNCHANGED toHub
     \/ toHub' = [toHub EXCEPT ![p] = Sent(@, GameDataFrame(p)')]
     \/ toHub' = [toHub EXCEPT ![p] = Sent(@, IdentificationFrame)]

\* A frame is taken and ignored, or nothing happens.
NoAction == UNCHANGED <<hubVars, spokeVars, madeUp>> /\ OnlyTakenFromHub /\ OnlyTakenFromSpokes

LEMMA HubStepIsHubAction ==
  ASSUME ~Standalone, GameInvariant, LockstepInvariant, [Next]_hubVars, HubAdvances, HubTakes,
         NEW ACTION Step, HubStep(Step), OnlyTakenFromHub
  PROVE  HubAction
<1>1. \E large : \E asks : HubWires(large, asks)
  BY Zenon DEF HubStep
<1>2. UNCHANGED spokeVars /\ RemembersMadeUp
  BY DEF HubStep
<1>3. HubInvariant /\ HubInvariant' /\ HubRemembers
  BY DEF GameInvariant, HubAdvances, LockstepInvariant
<1>4. HubMoves
  BY <1>3, EveryStepMoves
<1>5. SettledStands
  BY <1>2, <1>3, <1>4, MovesKeepSettled
<1> QED BY <1>1, <1>2, <1>4, <1>5 DEF HubAction

LEMMA HubHandlesIsHubAction ==
  ASSUME ~Standalone, GameInvariant, LockstepInvariant, NEW p \in Players, NEW k \in 1 .. Len(toHub[p]),
         HubStep(HubHandles(p, toHub[p][k])), OnlyTakenFromHub
  PROVE  HubAction
<1> DEFINE f == toHub[p][k]
<1>1. HubHandles(p, f)
  BY DEF HubStep
<1>2. FrameToHubSound(p, f)
  BY FrameOnTheWire
<1>3. Next /\ HubAdvances
  BY <1>1, <1>2, HubHandlesSoundFrames
<1>4. HubTakes
  <2>1. CASE ReceiveIdentification(p)
    BY <2>1, OtherHubStepsTake
  <2>2. CASE f.type = "game data" /\ ReceiveGameData(p, f.ack, f.start, f.end)
    <3>1. IsSequence(toHub[p])
      BY DEF GameInvariant, WiresSound
    <3>2. f \in GameDataOf(p)
      BY <2>2, <3>1, SequenceLength DEF GameDataOf
    <3>3. f.ack \in FirstTick .. smallestUnsentTick /\ f.start \in FirstTick .. Horizon /\ f.end \in FirstTick .. Horizon
      BY <1>2, <2>2 DEF FrameToHubSound
    <3>4. f.ack \in FirstTick .. Horizon
      <4>1. /\ smallestUnsentTick \in Int /\ smallestUnsentTick <= Horizon
            /\ FirstTick \in Int /\ Horizon \in Int
        BY Constants DEF GameInvariant, HubInvariant, TypeOK
      <4>2. \A n \in FirstTick .. smallestUnsentTick : n \in FirstTick .. Horizon
        BY <4>1
      <4> QED BY <3>3, <4>2
    <3> HIDE DEF f
    <3> QED BY <2>2, <3>2, <3>3, <3>4, GameDataTakes DEF GameInvariant
  <2> QED BY <1>1, <2>1, <2>2 DEF HubHandles
<1> QED BY <1>3, <1>4, HubStepIsHubAction

LEMMA WiresUntouched ==
  ASSUME GameInvariant
  PROVE  /\ UNCHANGED toHub => OnlyTakenFromHub
         /\ UNCHANGED toSpoke => OnlyTakenFromSpokes
  BY DEF GameInvariant, WiresSound, OnlyTakenFromHub, OnlyTakenFromSpokes

LEMMA HubReceivesKind ==
  ASSUME ~Standalone, GameInvariant, LockstepInvariant, NEW p \in Players,
         HubReceivesRemote(p) \/ HubReceivesLocal(p)
  PROVE  HubAction \/ NoAction
<1>1. CASE HubReceivesRemote(p)
  BY <1>1, HubHandlesIsHubAction, WiresUntouched DEF HubReceivesRemote
<1>2. CASE HubReceivesLocal(p)
  <2>1. /\ toHub[p] # << >> /\ IsSequence(toHub[p]) /\ toHub = [r \in Players |-> toHub[r]]
        /\ toHub' = [toHub EXCEPT ![p] = << >>]
    BY <1>2 DEF HubReceivesLocal, GameInvariant, WiresSound
  <2>2. 1 \in 1 .. Len(toHub[p]) /\ Head(toHub[p]) = toHub[p][1]
    BY <2>1, FirstIsHead
  <2>3. OnlyTakenFromHub
    BY <2>1 DEF OnlyTakenFromHub
  <2>4. CASE HubIgnores(p, Head(toHub[p]))
    <3>1. UNCHANGED <<hubVars, spokeVars, madeUp>> /\ UNCHANGED toSpoke
      BY <1>2, <2>4 DEF HubReceivesLocal
    <3> QED BY <2>3, <3>1, WiresUntouched DEF NoAction
  <2>5. CASE ~HubIgnores(p, Head(toHub[p]))
    <3>1. HubStep(HubHandles(p, toHub[p][1]))
      BY <1>2, <2>2, <2>5 DEF HubReceivesLocal
    <3> QED BY <2>2, <2>3, <3>1, HubHandlesIsHubAction
  <2> QED BY <2>4, <2>5
<1> QED BY <1>1, <1>2

LEMMA SpokeReceivesKind ==
  ASSUME GameInvariant, NEW p \in Players, SpokeReceivesRemote(p) \/ SpokeReceivesLocal(p)
  PROVE  ReceiptAction(p) \/ NoAction
<1>1. /\ IsSequence(toSpoke[p]) /\ DOMAIN toSpoke[p] = 1 .. Len(toSpoke[p])
      /\ toSpoke = [r \in Players |-> toSpoke[r]]
  BY SequenceLength DEF GameInvariant, WiresSound
<1>2. CASE SpokeReceivesRemote(p)
  <2>1. PICK k \in DOMAIN toSpoke[p] : SpokeReceives(p, toSpoke[p][k])
    BY <1>1, <1>2 DEF SpokeReceivesRemote
  <2>2. UNCHANGED <<hubVars, madeUp, toHub>> /\ UNCHANGED toSpoke
    BY <1>2 DEF SpokeReceivesRemote, wires
  <2> QED BY <2>1, <2>2, WiresUntouched DEF ReceiptAction
<1>3. CASE SpokeReceivesLocal(p)
  <2>1. /\ UNCHANGED <<hubVars, madeUp>> /\ UNCHANGED toHub /\ toSpoke[p] # << >>
        /\ toSpoke' = [toSpoke EXCEPT ![p] = << >>]
    BY <1>3 DEF SpokeReceivesLocal
  <2>2. 1 \in DOMAIN toSpoke[p] /\ Head(toSpoke[p]) = toSpoke[p][1]
    BY <1>1, <2>1, FirstIsHead
  <2>3. OnlyTakenFromSpokes
    BY <1>1, <2>1 DEF OnlyTakenFromSpokes
  <2>4. SpokeReceives(p, toSpoke[p][1]) \/ UNCHANGED spokeVars
    BY <1>3, <2>2 DEF SpokeReceivesLocal
  <2> QED BY <2>1, <2>2, <2>3, <2>4, WiresUntouched DEF ReceiptAction, NoAction
<1> QED BY <1>2, <1>3

LEMMA SpokeActsKind ==
  ASSUME NEW p \in Players, SpokeTicks(p) \/ SpokeSilenced(p) \/ MainThread(p) \/ SpokeLeaves(p)
  PROVE  OwnAction(p)
<1>1. CASE SpokeTicks(p)
  <2>1. SpokeTick(p) /\ UNCHANGED <<hubVars, toSpoke, madeUp>>
    BY <1>1 DEF SpokeTicks
  <2>2. \/ UNCHANGED toHub
        \/ toHub' = [toHub EXCEPT ![p] = Sent(@, GameDataFrame(p)')]
        \/ toHub' = [toHub EXCEPT ![p] = Sent(@, IdentificationFrame)]
    BY <1>1 DEF SpokeTicks
  <2> QED BY <2>1, <2>2 DEF OwnAction, OwnStep
<1>2. CASE SpokeSilenced(p) \/ MainThread(p)
  BY <1>2 DEF SpokeSilenced, MainThread, OwnAction, OwnStep, wires
<1>3. CASE SpokeLeaves(p)
  <2>1. SpokeCleanup(p) /\ UNCHANGED <<hubVars, toSpoke, madeUp>>
        /\ toHub' = [toHub EXCEPT ![p] = Sent(@, GameDataFrame(p))]
    BY <1>3 DEF SpokeLeaves
  <2>2. GameDataFrame(p)' = GameDataFrame(p)
    BY <2>1 DEF SpokeCleanup, GameDataFrame, spokeQueueVars, receivedVars
  <2> QED BY <2>1, <2>2 DEF OwnAction, OwnStep
<1> QED BY <1>1, <1>2, <1>3

\* Every step of the game is of one of these kinds.
LEMMA StepKinds ==
  ASSUME ~Standalone, GameInvariant, LockstepInvariant, [GameNext]_gameVars
  PROVE  HubAction \/ NoAction \/ \E p \in Players : ReceiptAction(p) \/ OwnAction(p)
<1>1. CASE HubTicks
  <2>1. HubStep(HubTick) /\ UNCHANGED toHub
    BY <1>1 DEF HubTicks
  <2>2. HubTick
    BY <2>1 DEF HubStep
  <2>3. HubAdvances /\ HubTakes /\ Next
    BY <2>2, TickAdvances, TickTakes DEF GameInvariant, Next
  <2> QED BY <2>1, <2>3, WiresUntouched, HubStepIsHubAction
<1>2. CASE HubLeaves
  <2>1. HubCleanupEnd \/ \E graceful \in BOOLEAN, t \in PostGameTicks : HubCleanup(graceful, t)
    BY <1>2 DEF HubLeaves
  <2>2. HubAdvances /\ ~HubSends /\ HubTakes
    BY <2>1, OtherHubStepsAdvance, OtherHubStepsTake DEF GameInvariant
  <2>3. UNCHANGED <<spokeVars, toHub, toSpoke, madeUp>>
    BY <1>2 DEF HubLeaves, wires
  <2>4. HubWires({}, << >>)
    BY <2>2, <2>3 DEF HubWires
  <2>5. RemembersMadeUp
    <3>1. playerReflectedFlags' = playerReflectedFlags
      BY <2>1 DEF HubCleanup, HubCleanupEnd, queueVars
    <3> QED BY <2>3, <3>1 DEF LockstepInvariant, HubRemembers, RemembersMadeUp
  <2>6. HubMoves
    BY <2>1, EveryStepMoves DEF GameInvariant, Next
  <2>7. SettledStands
    BY <2>2, <2>5, <2>6, MovesKeepSettled DEF GameInvariant, HubAdvances, LockstepInvariant
  <2> QED BY <2>2, <2>3, <2>4, <2>5, <2>6, <2>7, WiresUntouched DEF HubAction
<1>3. CASE \E p \in Remote : HubReceivesRemote(p) \/ SpokeReceivesRemote(p)
  <2>1. PICK p \in Players : HubReceivesRemote(p) \/ SpokeReceivesRemote(p)
    BY <1>3 DEF Remote
  <2> QED BY <2>1, HubReceivesKind, SpokeReceivesKind
<1>4. CASE \E p \in Local : HubReceivesLocal(p) \/ SpokeReceivesLocal(p)
  <2>1. PICK p \in Players : HubReceivesLocal(p) \/ SpokeReceivesLocal(p)
    BY <1>4 DEF Local
  <2> QED BY <2>1, HubReceivesKind, SpokeReceivesKind
<1>5. CASE \E p \in Players : SpokeTicks(p) \/ SpokeSilenced(p) \/ MainThread(p) \/ SpokeLeaves(p)
  BY <1>5, SpokeActsKind
<1>6. CASE UNCHANGED gameVars
  <2>1. UNCHANGED <<hubVars, spokeVars, madeUp>> /\ UNCHANGED toHub /\ UNCHANGED toSpoke
    BY <1>6 DEF gameVars, wires
  <2> QED BY <2>1, WiresUntouched DEF NoAction
<1> QED BY <1>1, <1>2, <1>3, <1>4, <1>5, <1>6 DEF GameNext

-----------------------------------------------------------------------------
(* What becomes of a frame that p takes.                                     *)

Acked(p, f) == Larger(outgoingReadTick[p], Smaller(f.ack, outgoingWriteTick[p]))

\* What p knows of the others and of its own flags by the frame.
TakesView(p, f) ==
  /\ f.ack <= outgoingWriteTick[p] \/ f.reflects
  /\ outgoingReadTick' = [outgoingReadTick EXCEPT ![p] = Acked(p, f)]
  /\ stillConnected' = [stillConnected EXCEPT ![p] = StillConnected(p, f)]
  /\ deadTick' = [deadTick EXCEPT ![p] = DeadTicks(p, f)]

TakesNothing(p) ==
  UNCHANGED <<reallyNetDead, gameFlags, smallestUnreceivedTick, smallestUnconfirmedTick, spokeFailures>>

TakesItsOwn(p, f) ==
  f.flags = << >> /\ WeAreAlone(p, f, Acked(p, f)) /\ ReceiveNoFlags(p, f, Acked(p, f))

TakesFlags(p, f, start, stop) ==
  /\ start \in DOMAIN f.flags /\ start <= smallestUnreceivedTick[p]
  /\ start .. stop - 1 \subseteq DOMAIN f.flags
  /\ stop <= smallestUnreceivedTick[p] + QueueSpace(p) /\ QueueSpace(p) > 0
  /\ ReceiveFlags(p, f, start, stop)

\* It is dropped; or only its news are taken; or p, alone, goes on by itself; or its flags are taken.
LEMMA ReceiptKinds ==
  ASSUME GameInvariant, NEW p \in Players, NEW f, FrameToSpokeSound(p, f), FrameDecided(p, f),
         SpokeReceives(p, f)
  PROVE  /\ Running(p) /\ spokeConnected[p]
         /\ UNCHANGED <<spokeActive, spokeConnected, outgoingWriteTick, unconfirmedReadTick,
                        unconfirmedWriteTick, gameTicks>>
         /\ \/ TakesNothing(p) /\ UNCHANGED <<outgoingReadTick, stillConnected, deadTick>>
            \/ /\ TakesView(p, f)
               /\ \/ TakesNothing(p)
                  \/ TakesItsOwn(p, f)
                  \/ \E start, stop \in Int : TakesFlags(p, f, start, stop)
<1> DEFINE acked == Acked(p, f)
           start == CHOOSE t \in DOMAIN f.flags : \A u \in DOMAIN f.flags : t <= u
           last  == CHOOSE t \in DOMAIN f.flags : \A u \in DOMAIN f.flags : u <= t
           stop  == Smaller(last + 1, smallestUnreceivedTick[p] + QueueSpace(p))
<1>1. /\ Running(p) /\ spokeConnected[p]
      /\ UNCHANGED <<spokeActive, spokeConnected, outgoingWriteTick, unconfirmedReadTick,
                     unconfirmedWriteTick, gameTicks>>
  BY DEF SpokeReceives
<1>2. \/ TakesNothing(p) /\ UNCHANGED <<outgoingReadTick, stillConnected, deadTick>>
      \/ TakesView(p, f) /\ ReceiveTicks(p, f, acked)
  <2>1. CASE f.ack > outgoingWriteTick[p] /\ ~f.reflects
    BY <2>1 DEF SpokeReceives, TakesNothing, viewVars, receivedVars
  <2>2. CASE ~(f.ack > outgoingWriteTick[p] /\ ~f.reflects)
    <3>1. f.ack \in Int /\ outgoingWriteTick[p] \in Int
      <4>1. /\ f.ack \in FirstTick .. flagsWriteTick[p] /\ flagsWriteTick[p] \in Int
            /\ outgoingWriteTick[p] \in FirstTick .. Horizon
        BY Constants DEF FrameToSpokeSound, GameInvariant, HubInvariant, TypeOK, SpokesSound
      <4>2. FirstTick \in Int /\ Horizon \in Int
        BY Constants
      <4> QED BY <4>1, <4>2
    <3>2. f.ack <= outgoingWriteTick[p] \/ f.reflects
      BY <2>2, <3>1
    <3> QED BY <2>2, <3>2 DEF SpokeReceives, TakesView, Acked
  <2> QED BY <2>1, <2>2
<1>3. ASSUME ReceiveTicks(p, f, acked), ~TakesNothing(p), f.flags = << >>
      PROVE  TakesItsOwn(p, f)
  <2>1. ReceiveNoFlags(p, f, acked)
    BY <1>3 DEF ReceiveTicks
  <2>2. WeAreAlone(p, f, acked)
    BY <1>3, <2>1 DEF ReceiveNoFlags, TakesNothing
  <2> QED BY <1>3, <2>1, <2>2 DEF TakesItsOwn
<1>4. ASSUME ReceiveTicks(p, f, acked), ~TakesNothing(p), f.flags # << >>
      PROVE  \E first, past \in Int : TakesFlags(p, f, first, past)
  <2>1. ~SkipsTicks(p, start) /\ QueueSpace(p) > 0 /\ ReceiveFlags(p, f, start, stop)
    <3> HIDE DEF start, stop, acked
    <3>1. ~UNCHANGED <<reallyNetDead, receivedVars, smallestUnconfirmedTick, spokeFailures>>
      BY <1>4 DEF receivedVars, TakesNothing
    <3>2. ~(SkipsTicks(p, start) \/ QueueSpace(p) <= 0)
      BY <1>4, <3>1 DEF ReceiveTicks, start, stop
    <3>3. ReceiveFlags(p, f, start, stop)
      BY <1>4, <3>2 DEF ReceiveTicks, start, stop
    <3>4. QueueSpace(p) \in Int
      BY QueueSpaceIsNumber DEF GameInvariant
    <3> QED BY <3>2, <3>3, <3>4
  <2>2. smallestUnsentTick \in Int /\ smallestUnreceivedTick[p] \in Int /\ QueueSpace(p) \in Int
    BY Constants, QueueSpaceIsNumber DEF GameInvariant, SpokesSound, HubInvariant, TypeOK
  <2>3. DOMAIN f.flags # {}
    <3>1. f.flags = [t \in DOMAIN f.flags |-> f.flags[t]]
      BY DEF FrameToSpokeSound
    <3>2. << >> = [t \in DOMAIN << >> |-> << >>[t]] /\ DOMAIN << >> = {}
      BY EmptySequence
    <3> QED BY <1>4, <3>1, <3>2
  <2>4. /\ DOMAIN f.flags \in SUBSET Int
        /\ \A t \in DOMAIN f.flags : t <= smallestUnsentTick - 1
        /\ \A t \in DOMAIN f.flags : FirstTick <= t
    BY <2>2, Constants DEF FrameToSpokeSound
  <2>5. last \in DOMAIN f.flags /\ \A t \in DOMAIN f.flags : t <= last
    <3>1. smallestUnsentTick - 1 \in Int
      BY <2>2
    <3>2. \E t \in DOMAIN f.flags : \A u \in DOMAIN f.flags : u <= t
      BY <2>3, <2>4, <3>1, GreatestInteger
    <3> QED BY <3>2
  <2>6. start \in DOMAIN f.flags
    <3>1. FirstTick \in Int
      BY Constants
    <3>2. \E t \in DOMAIN f.flags : \A u \in DOMAIN f.flags : t <= u
      BY <2>3, <2>4, <3>1, LeastInteger
    <3> QED BY <3>2
  <2> HIDE DEF last, start
  <2>7. last \in Int /\ start \in Int /\ start .. last \subseteq DOMAIN f.flags
    BY <2>4, <2>5, <2>6 DEF FrameDecided
  <2>8. /\ stop \in Int /\ stop <= last + 1 /\ start <= smallestUnreceivedTick[p]
        /\ stop <= smallestUnreceivedTick[p] + QueueSpace(p)
    BY <2>1, <2>2, <2>7 DEF Smaller, SkipsTicks
  <2> HIDE DEF stop
  <2>9. start .. stop - 1 \subseteq DOMAIN f.flags
    <3>1. start .. stop - 1 \subseteq start .. last
      BY <2>7, <2>8
    <3> QED BY <2>7, <3>1
  <2>10. TakesFlags(p, f, start, stop)
    BY <2>1, <2>6, <2>8, <2>9 DEF TakesFlags
  <2> QED BY <2>7, <2>8, <2>10
<1> HIDE DEF acked
<1> QED BY <1>1, <1>2, <1>3, <1>4

LEMMA AckedBounds ==
  ASSUME GameInvariant, NEW p \in Players, NEW f, FrameToSpokeSound(p, f)
  PROVE  /\ f.ack \in Int /\ f.ack <= flagsWriteTick[p] /\ Acked(p, f) \in Int
         /\ outgoingReadTick[p] <= Acked(p, f) /\ Acked(p, f) <= outgoingWriteTick[p]
         /\ f.ack <= outgoingWriteTick[p] => f.ack <= Acked(p, f)
         /\ f.ack > outgoingWriteTick[p] => Acked(p, f) = outgoingWriteTick[p]
         /\ outgoingReadTick[p] \in Int /\ outgoingWriteTick[p] \in Int /\ flagsWriteTick[p] \in Int
         /\ smallestUnreceivedTick[p] \in Int /\ FirstTick \in Int
<1>1. /\ f.ack \in FirstTick .. flagsWriteTick[p] /\ flagsWriteTick[p] \in Int
      /\ outgoingWriteTick[p] \in Int /\ outgoingReadTick[p] \in Int
      /\ outgoingReadTick[p] <= outgoingWriteTick[p] /\ FirstTick \in Int
      /\ smallestUnreceivedTick[p] \in Int
  BY Constants DEF FrameToSpokeSound, GameInvariant, HubInvariant, TypeOK, SpokesSound
<1>2. f.ack \in Int /\ f.ack <= flagsWriteTick[p]
  BY <1>1
<1> QED BY <1>1, <1>2 DEF Acked, Larger, Smaller

-----------------------------------------------------------------------------
(* What a machine keeps.                                                     *)

LEMMA ReceiptKeepsTyped ==
  ASSUME GameInvariant, MachinesTyped, NEW p \in Players, NEW f,
         FrameToSpokeSound(p, f), FrameDecided(p, f), SpokeReceives(p, f)
  PROVE  MachinesTyped'
<1>1. UNCHANGED <<spokeActive, spokeConnected, sinceSpokeSent, spokeTicker>>
  BY DEF SpokeReceives
<1>2. heardFromHub' = [heardFromHub EXCEPT ![p] = TRUE]
      /\ hubSilence' \in {hubSilence, [hubSilence EXCEPT ![p] = 0]}
  BY DEF SpokeReceives
<1>3. heardFromHub' \in [Players -> BOOLEAN] /\ hubSilence' \in [Players -> 0 .. HubSilenceCap]
  <2>1. 0 \in 0 .. HubSilenceCap
    BY SpokeConstants DEF HubSilenceCap, Larger
  <2> QED BY <1>2, <2>1 DEF MachinesTyped
<1>4. stillConnected' \in [Players -> SUBSET Players] /\ deadTick' \in [Players -> [Players -> FirstTick - 1 .. Horizon]]
  <2>1. StillConnected(p, f) \subseteq Players
    BY DEF StillConnected, MachinesTyped
  <2>2. DeadTicks(p, f) \in [Players -> FirstTick - 1 .. Horizon]
    <3>1. \A q \in Players : (\E death \in f.deaths : death[1] = q) =>
            (CHOOSE death \in f.deaths : death[1] = q)[2] \in FirstTick - 1 .. Horizon
      <4>1. \A death \in f.deaths : death[2] \in FirstTick - 1 .. Horizon
        BY DEF FrameDecided, GameInvariant, HubInvariant, TypeOK
      <4> QED BY <4>1
    <3> QED BY <3>1 DEF DeadTicks, MachinesTyped
  <2>3. \/ UNCHANGED <<stillConnected, deadTick>>
        \/ /\ stillConnected' = [stillConnected EXCEPT ![p] = StillConnected(p, f)]
           /\ deadTick' = [deadTick EXCEPT ![p] = DeadTicks(p, f)]
    BY DEF SpokeReceives, viewVars
  <2>4. stillConnected \in [Players -> SUBSET Players]
        /\ deadTick \in [Players -> [Players -> FirstTick - 1 .. Horizon]]
    BY DEF MachinesTyped
  <2> HIDE DEF StillConnected, DeadTicks, MachinesTyped
  <2>5. stillConnected' \in [Players -> SUBSET Players]
    BY <2>1, <2>3, <2>4
  <2>6. deadTick' \in [Players -> [Players -> FirstTick - 1 .. Horizon]]
    BY <2>2, <2>3, <2>4
  <2> QED BY <2>5, <2>6
<1>5. reallyNetDead' \in [Players -> SUBSET Players] /\ spokeFailures' \in [Players -> SUBSET Int]
  <2>1. CASE TakesNothing(p)
    BY <2>1 DEF TakesNothing, MachinesTyped
  <2>2. CASE TakesItsOwn(p, f)
    BY <2>2 DEF TakesItsOwn, ReceiveNoFlags, MachinesTyped
  <2>3. ASSUME NEW start \in Int, NEW stop \in Int, TakesFlags(p, f, start, stop)
        PROVE  reallyNetDead' \in [Players -> SUBSET Players] /\ spokeFailures' \in [Players -> SUBSET Int]
    <3>1. FailedAsserts(p, f, start, stop) \in SUBSET Int
      BY DEF FailedAsserts
    <3>2. MadeNetDead(p, f, stop) \subseteq Players
      BY DEF MadeNetDead
    <3>3. \/ UNCHANGED reallyNetDead
          \/ reallyNetDead' = [reallyNetDead EXCEPT ![p] = @ \cup MadeNetDead(p, f, stop)]
      BY <2>3 DEF TakesFlags, ReceiveFlags
    <3>4. \/ UNCHANGED spokeFailures
          \/ spokeFailures' = [spokeFailures EXCEPT ![p] = FailedAsserts(p, f, start, stop)]
      BY <2>3 DEF TakesFlags, ReceiveFlags
    <3>5. reallyNetDead \in [Players -> SUBSET Players] /\ spokeFailures \in [Players -> SUBSET Int]
      BY DEF MachinesTyped
    <3>6. reallyNetDead' \in [Players -> SUBSET Players]
      BY <3>2, <3>3, <3>5
    <3>7. spokeFailures' \in [Players -> SUBSET Int]
      BY <3>1, <3>4, <3>5
    <3> QED BY <3>6, <3>7
  <2> QED BY <2>1, <2>2, <2>3, ReceiptKinds
<1> QED BY <1>1, <1>3, <1>4, <1>5 DEF MachinesTyped

LEMMA OwnStepKeepsTyped ==
  ASSUME MachinesTyped, NEW p \in Players, OwnStep(p)
  PROVE  MachinesTyped'
<1>1. 0 \in 0 .. HubSilenceCap /\ \A n \in 0 .. HubSilenceCap : Smaller(n + 1, HubSilenceCap) \in 0 .. HubSilenceCap
  <2>1. HubSilenceCap \in Nat
    BY SpokeConstants DEF HubSilenceCap, Larger
  <2> HIDE DEF HubSilenceCap
  <2> QED BY <2>1 DEF Smaller
<1>2. /\ 0 \in 0 .. SpokeRecoverySendPeriod
      /\ \A n \in 0 .. SpokeRecoverySendPeriod :
           Smaller(n + 1, SpokeRecoverySendPeriod) \in 0 .. SpokeRecoverySendPeriod
  BY SpokeConstants DEF Smaller
<1>3. \A n \in 0 .. IdentificationPeriod - 1 : (n + 1) % IdentificationPeriod \in 0 .. IdentificationPeriod - 1
  BY SpokeConstants
<1> HIDE DEF HubSilenceCap
<1>4. CASE SpokeTick(p)
  <2>1. UNCHANGED <<spokeActive, spokeConnected, heardFromHub, stillConnected, deadTick, reallyNetDead, spokeFailures>>
    BY <1>4 DEF SpokeTick, viewVars
  <2>2. spokeTicker' = [spokeTicker EXCEPT ![p] = (@ + 1) % IdentificationPeriod]
    BY <1>4 DEF SpokeTick
  <2>3. \/ UNCHANGED <<hubSilence, sinceSpokeSent>>
        \/ /\ hubSilence' = [hubSilence EXCEPT ![p] = Smaller(@ + 1, HubSilenceCap)]
           /\ sinceSpokeSent' = [sinceSpokeSent EXCEPT ![p] =
                IF SendsGameData(p) THEN 0 ELSE Smaller(@ + 1, SpokeRecoverySendPeriod)]
    BY <1>4 DEF SpokeTick, ConnectedTick, CutOffTick
  <2>4. spokeTicker' \in [Players -> 0 .. IdentificationPeriod - 1]
    BY <1>3, <2>2 DEF MachinesTyped
  <2>5. hubSilence' \in [Players -> 0 .. HubSilenceCap]
    BY <1>1, <2>3 DEF MachinesTyped
  <2>6. sinceSpokeSent' \in [Players -> 0 .. SpokeRecoverySendPeriod]
    BY <1>2, <2>3 DEF MachinesTyped
  <2> QED BY <2>1, <2>4, <2>5, <2>6 DEF MachinesTyped
<1>5. CASE SpokeGivesUp(p)
  <2>1. UNCHANGED <<spokeActive, heardFromHub, stillConnected, deadTick, sinceSpokeSent, spokeTicker, spokeFailures>>
    BY <1>5 DEF SpokeGivesUp
  <2>2. /\ spokeConnected' = [spokeConnected EXCEPT ![p] = FALSE]
        /\ reallyNetDead' = [reallyNetDead EXCEPT ![p] = @ \cup stillConnected[p]]
        /\ hubSilence' = [hubSilence EXCEPT ![p] = 0]
    BY <1>5 DEF SpokeGivesUp
  <2> QED BY <1>1, <2>1, <2>2 DEF MachinesTyped
<1>6. CASE ForgetConfirmed(p) \/ GameAdvances(p)
  BY <1>6 DEF ForgetConfirmed, GameAdvances, viewVars, clockVars, MachinesTyped
<1>7. CASE SpokeCleanup(p)
  BY <1>7 DEF SpokeCleanup, viewVars, clockVars, MachinesTyped
<1> QED BY <1>4, <1>5, <1>6, <1>7 DEF OwnStep

-----------------------------------------------------------------------------
(* Links keep their promises.                                                *)

LEMMA HubKeepsLinks ==
  ASSUME GameInvariant, GameInvariant', LockstepInvariant, LinksInvariant, HubAction
  PROVE  LinksInvariant'
<1>1. /\ connected \subseteq Players /\ connected' \subseteq connected /\ smallestIncompleteTick \in Int
      /\ Ticks \subseteq Int /\ Zombies \subseteq Players
      /\ outgoingWriteTick \in [Players -> FirstTick .. Horizon]
      /\ FirstTick \in Int /\ Horizon \in Int
  <2>1. connected \subseteq Players /\ smallestIncompleteTick \in Int
    BY Constants DEF GameInvariant, HubInvariant, TypeOK
  <2>2. connected' \subseteq connected
    BY DEF HubAction, HubMoves
  <2>3. Zombies \subseteq Players /\ FirstTick \in Int /\ Horizon \in Int /\ Ticks \subseteq Int
    BY Constants, SpokeConstants DEF Ticks
  <2> QED BY <2>1, <2>2, <2>3 DEF GameInvariant, SpokesSound
<1>2. UNCHANGED <<spokeActive, smallestUnreceivedTick, outgoingReadTick, outgoingWriteTick>>
  BY DEF HubAction, spokeVars, spokeQueueVars, receivedVars
<1>3. \A t \in Ticks : madeUp[t] \subseteq madeUp'[t] /\ madeUp'[t] = madeUp[t] \cup playerReflectedFlags'[t]
  BY DEF HubAction, RemembersMadeUp
<1>4. MachinesTyped' /\ ZombiesRest'
  <2>1. \A z \in Zombies : netDeadTick'[z] = netDeadTick[z]
    BY <1>1 DEF HubAction, HubMoves, LinksInvariant, ZombiesRest, InGame
  <2>2. MachinesTyped'
    BY DEF HubAction, spokeVars, viewVars, clockVars, LinksInvariant, MachinesTyped
  <2> QED BY <1>1, <1>2, <2>1, <2>2 DEF LinksInvariant, ZombiesRest
<1>5. AcksAreTrue'
  <2>1. ASSUME NEW p \in Players, NEW k \in DOMAIN toHub'[p] PROVE FramePromises(p, toHub[p][k])'
    <3>1. toHub'[p] = toHub[p] /\ k \in DOMAIN toHub[p]
      BY <2>1, EmptySequence DEF HubAction, OnlyTakenFromHub
    <3> QED BY <1>2, <3>1 DEF LinksInvariant, AcksAreTrue, FramePromises
  <2>2. ASSUME NEW p \in connected' PROVE smallestUnacknowledgedTick'[p] <= smallestUnreceivedTick[p]
    <3>1. CASE smallestUnacknowledgedTick'[p] = smallestUnacknowledgedTick[p]
      BY <1>1, <3>1 DEF LinksInvariant, AcksAreTrue
    <3>2. CASE \E f \in GameDataOf(p) : smallestUnacknowledgedTick'[p] = f.ack
      BY <1>1, <3>2 DEF LinksInvariant, AcksAreTrue, GameDataOf, FramePromises
    <3> QED BY <3>1, <3>2 DEF HubAction, HubTakes
  <2> QED BY <1>2, <2>1, <2>2 DEF AcksAreTrue
<1>6. MakesUpTheRest'
  <2>1. ASSUME NEW p \in Players, NEW t \in outgoingWriteTick[p] .. flagsWriteTick'[p] - 1
        PROVE  t \in Ticks /\ p \in madeUp'[t]
    <3>1. outgoingWriteTick[p] \in Int /\ flagsWriteTick[p] \in Int /\ flagsWriteTick'[p] \in Int
      BY <1>1, Constants DEF GameInvariant, HubInvariant, TypeOK
    <3>2. ASSUME t <= flagsWriteTick[p] - 1 PROVE t \in Ticks /\ p \in madeUp'[t]
      <4>1. t \in outgoingWriteTick[p] .. flagsWriteTick[p] - 1
        BY <3>1, <3>2
      <4> QED BY <1>3, <4>1 DEF LinksInvariant, MakesUpTheRest
    <3>3. CASE flagsWriteTick'[p] = flagsWriteTick[p]
      BY <3>1, <3>2, <3>3
    <3>4. ASSUME NEW f \in GameDataOf(p), flagsWriteTick'[p] <= f.end PROVE FALSE
      <4>1. f.end <= outgoingWriteTick[p]
        BY DEF LinksInvariant, AcksAreTrue, GameDataOf, FramePromises
      <4>2. f.end \in FirstTick .. Horizon
        BY DEF GameDataOf, GameInvariant, WiresSound, FrameToHubSound
      <4> QED BY <1>1, <3>1, <3>4, <4>1, <4>2
    <3>5. CASE /\ flagsWriteTick[p] \in Ticks /\ flagsWriteTick'[p] = flagsWriteTick[p] + 1
               /\ p \in playerReflectedFlags'[flagsWriteTick[p]]
      <4>1. t = flagsWriteTick[p] \/ t <= flagsWriteTick[p] - 1
        BY <3>1, <3>5
      <4> QED BY <1>3, <3>2, <3>5, <4>1
    <3> QED BY <3>3, <3>4, <3>5 DEF HubAction, HubTakes
  <2> QED BY <1>2, <2>1 DEF MakesUpTheRest
<1>7. ReceivesItsOwn'
  BY <1>2, <1>3 DEF LinksInvariant, ReceivesItsOwn
<1>8. NobodyLagsAlone'
  <2>1. ASSUME NEW t \in Ticks, NEW p \in madeUp'[t]
        PROVE  \E q \in InGame \ {p} : q \in connected' \/ t < netDeadTick'[q]
    <3>1. CASE p \in madeUp[t]
      <4>1. PICK q \in InGame \ {p} : q \in connected \/ t < netDeadTick[q]
        BY <3>1 DEF LinksInvariant, NobodyLagsAlone
      <4>2. q \in Players
        BY DEF InGame
      <4>3. CASE q \notin connected
        BY <4>1, <4>2, <4>3 DEF HubAction, SettledStands
      <4>4. CASE q \in connected
        <5>1. t < smallestIncompleteTick
          BY <1>1, <3>1 DEF LockstepInvariant, HubRemembers
        <5>2. q \in connected' \/ netDeadTick'[q] = smallestIncompleteTick
          BY <4>2, <4>4 DEF HubAction, HubMoves
        <5> QED BY <5>1, <5>2
      <4> QED BY <4>3, <4>4
    <3>2. CASE p \notin madeUp[t]
      <4>1. p \in playerReflectedFlags'[t] \ playerReflectedFlags[t]
        BY <1>3, <2>1, <3>2 DEF LockstepInvariant, HubRemembers
      <4>2. connected' \ {p} # {}
        BY <4>1 DEF HubAction, HubTakes
      <4> QED BY <1>4, <4>2 DEF ZombiesRest
    <3> QED BY <3>1, <3>2
  <2> QED BY <2>1 DEF NobodyLagsAlone
<1> QED BY <1>4, <1>5, <1>6, <1>7, <1>8 DEF LinksInvariant

LEMMA Overwritten ==
  ASSUME NEW S, NEW h, h = [r \in S |-> h[r]], NEW p \in S, NEW v, NEW g, g = [h EXCEPT ![p] = v]
  PROVE  g[p] = v /\ g = [h EXCEPT ![p] = g[p]]
<1>1. g[p] = v
  OBVIOUS
<1> QED BY <1>1

LEMMA Unwritten ==
  ASSUME NEW S, NEW h, h = [r \in S |-> h[r]], NEW p \in S
  PROVE  [h EXCEPT ![p] = h[p]] = h
  OBVIOUS

\* What p has received only grows: alone it goes on by itself from where its own flags are
\* acknowledged, and the hub makes up no flags beyond them without sending it those of others.
LEMMA ReceivedGrows ==
  ASSUME GameInvariant, LockstepInvariant, LinksInvariant, NEW p \in Players, NEW f,
         FrameToSpokeSound(p, f), FrameDecided(p, f), FrameFits(p, f), SpokeReceives(p, f)
  PROVE  /\ p \in InGame
         /\ smallestUnreceivedTick' = [smallestUnreceivedTick EXCEPT ![p] = smallestUnreceivedTick'[p]]
         /\ outgoingReadTick' = [outgoingReadTick EXCEPT ![p] = outgoingReadTick'[p]]
         /\ outgoingReadTick[p] <= outgoingReadTick'[p]
         /\ smallestUnreceivedTick[p] <= smallestUnreceivedTick'[p]
         /\ \/ smallestUnreceivedTick'[p] <= outgoingReadTick'[p]
            \/ smallestUnreceivedTick'[p] - 1 \in Ticks /\ p \in madeUp[smallestUnreceivedTick'[p] - 1]
<1> DEFINE acked == Acked(p, f)
           su  == smallestUnreceivedTick[p]
           su2 == smallestUnreceivedTick'[p]
           Frame == /\ smallestUnreceivedTick' = [smallestUnreceivedTick EXCEPT ![p] = su2]
                    /\ outgoingReadTick' = [outgoingReadTick EXCEPT ![p] = outgoingReadTick'[p]]
           Grows == /\ outgoingReadTick[p] <= outgoingReadTick'[p]
                    /\ su <= su2
                    /\ \/ su2 <= outgoingReadTick'[p]
                       \/ su2 - 1 \in Ticks /\ p \in madeUp[su2 - 1]
<1>1. /\ f.ack \in Int /\ f.ack <= flagsWriteTick[p] /\ acked \in Int
      /\ outgoingReadTick[p] <= acked /\ acked <= outgoingWriteTick[p]
      /\ f.ack <= outgoingWriteTick[p] => f.ack <= acked
      /\ f.ack > outgoingWriteTick[p] => acked = outgoingWriteTick[p]
      /\ outgoingReadTick[p] \in Int /\ outgoingWriteTick[p] \in Int /\ flagsWriteTick[p] \in Int
      /\ su \in Int /\ FirstTick \in Int
  BY AckedBounds
<1>2. /\ smallestUnreceivedTick = [r \in Players |-> smallestUnreceivedTick[r]]
      /\ outgoingReadTick = [r \in Players |-> outgoingReadTick[r]]
  BY DEF GameInvariant, SpokesSound
<1>3. \/ su <= outgoingReadTick[p]
      \/ su - 1 \in Ticks /\ p \in madeUp[su - 1]
  BY DEF LinksInvariant, ReceivesItsOwn
<1>4. p \in InGame
  BY DEF FrameFits
<1> HIDE DEF acked
<1>5. CASE TakesNothing(p) /\ UNCHANGED <<outgoingReadTick, stillConnected, deadTick>>
  <2>1. smallestUnreceivedTick' = smallestUnreceivedTick /\ outgoingReadTick' = outgoingReadTick
    BY <1>5 DEF TakesNothing
  <2>2. Frame
    BY <1>2, <2>1, Unwritten
  <2>3. Grows
    BY <1>1, <1>3, <2>1
  <2> QED BY <1>4, <2>2, <2>3
<1>6. CASE TakesView(p, f)
  <2>1. /\ outgoingReadTick' = [outgoingReadTick EXCEPT ![p] = outgoingReadTick'[p]]
        /\ outgoingReadTick'[p] = acked
    <3>1. outgoingReadTick' = [outgoingReadTick EXCEPT ![p] = acked]
      BY <1>6 DEF TakesView, acked
    <3> QED BY <1>2, <3>1, Overwritten
  <2>2. ASSUME smallestUnreceivedTick' = smallestUnreceivedTick PROVE Frame /\ Grows
    <3>1. Frame
      BY <1>2, <2>1, <2>2, Unwritten
    <3>2. su2 = su
      BY <2>2
    <3> QED BY <1>1, <1>3, <2>1, <3>1, <3>2
  <2>3. CASE TakesNothing(p)
    <3>1. smallestUnreceivedTick' = smallestUnreceivedTick
      BY <2>3 DEF TakesNothing
    <3> QED BY <1>4, <2>2, <3>1
  <2>4. CASE TakesItsOwn(p, f)
    <3>1. smallestUnreceivedTick' = [smallestUnreceivedTick EXCEPT ![p] = acked]
      BY <2>4 DEF TakesItsOwn, ReceiveNoFlags, acked
    <3>2. su <= acked
      <4>1. CASE su <= outgoingReadTick[p]
        BY <1>1, <4>1
      <4>2. CASE su - 1 \in Ticks /\ p \in madeUp[su - 1]
        <5>1. PICK q \in InGame \ {p} : q \in connected \/ su - 1 < netDeadTick[q]
          BY <4>2 DEF LinksInvariant, NobodyLagsAlone
        <5>2. q \notin StillConnected(p, f) /\ DeadTicks(p, f)[q] <= acked
          BY <2>4 DEF TakesItsOwn, WeAreAlone, InGame, acked
        <5>3. q \notin connected /\ DeadTicks(p, f)[q] = netDeadTick[q]
          BY <5>2, DeathsTold DEF GameInvariant, LockstepInvariant, SpokesDecided
        <5>4. netDeadTick[q] \in Int
          BY Constants DEF GameInvariant, HubInvariant, TypeOK, InGame
        <5> QED BY <1>1, <5>1, <5>2, <5>3, <5>4
      <4> QED BY <1>3, <4>1, <4>2
    <3>3. Frame /\ su2 = acked
      BY <1>2, <2>1, <3>1, Overwritten
    <3> HIDE DEF su, su2, Frame
    <3>4. Grows
      BY <1>1, <2>1, <3>2, <3>3
    <3> USE DEF su, su2, Frame
    <3> QED BY <1>4, <3>3, <3>4
  <2>5. ASSUME NEW start \in Int, NEW stop \in Int, TakesFlags(p, f, start, stop) PROVE Frame /\ Grows
    <3>1. \/ smallestUnreceivedTick' = smallestUnreceivedTick
          \/ smallestUnreceivedTick' = [smallestUnreceivedTick EXCEPT ![p] = Larger(su, stop)]
      BY <2>5 DEF TakesFlags, ReceiveFlags, receivedVars
    <3>2. CASE smallestUnreceivedTick' = smallestUnreceivedTick
      BY <2>2, <3>2
    <3>3. CASE su >= stop /\ smallestUnreceivedTick' = [smallestUnreceivedTick EXCEPT ![p] = Larger(su, stop)]
      <4>1. smallestUnreceivedTick' = [smallestUnreceivedTick EXCEPT ![p] = su]
        BY <3>3 DEF Larger
      <4>2. smallestUnreceivedTick' = smallestUnreceivedTick
        BY <1>2, <4>1, Unwritten
      <4> QED BY <2>2, <4>2
    <3>4. CASE ~(su >= stop) /\ smallestUnreceivedTick' = [smallestUnreceivedTick EXCEPT ![p] = Larger(su, stop)]
      <4>1. smallestUnreceivedTick' = [smallestUnreceivedTick EXCEPT ![p] = stop]
        BY <3>4 DEF Larger
      <4>2. Frame /\ su2 = stop
        BY <1>2, <2>1, <4>1, Overwritten
      <4>3. start <= su /\ start .. stop - 1 \subseteq DOMAIN f.flags
        BY <2>5 DEF TakesFlags
      <4>4. stop - 1 \in start .. stop - 1
        BY <1>1, <3>4, <4>3
      <4>5. stop - 1 < f.ack
        BY <4>3, <4>4 DEF FrameFits
      <4>6. stop <= acked \/ stop - 1 \in outgoingWriteTick[p] .. flagsWriteTick[p] - 1
        BY <1>1, <4>5
      <4>7. stop <= acked \/ (stop - 1 \in Ticks /\ p \in madeUp[stop - 1])
        <5>1. ASSUME stop - 1 \in outgoingWriteTick[p] .. flagsWriteTick[p] - 1
              PROVE  stop - 1 \in Ticks /\ p \in madeUp[stop - 1]
          BY <5>1 DEF LinksInvariant, MakesUpTheRest
        <5> QED BY <4>6, <5>1
      <4> HIDE DEF su, su2, Frame
      <4>8. Grows
        BY <1>1, <2>1, <3>4, <4>2, <4>7
      <4> USE DEF su, su2, Frame
      <4> QED BY <4>2, <4>8
    <3> QED BY <3>1, <3>2, <3>3, <3>4
  <2> QED BY <1>4, <1>6, <2>3, <2>4, <2>5, ReceiptKinds
<1> QED BY <1>5, <1>6, ReceiptKinds

LEMMA ReceiptKeepsLinks ==
  ASSUME GameInvariant, LockstepInvariant, LinksInvariant, FramesFit, NEW p \in Players, ReceiptAction(p)
  PROVE  LinksInvariant'
<1>1. PICK k \in DOMAIN toSpoke[p] : SpokeReceives(p, toSpoke[p][k])
  BY DEF ReceiptAction
<1>2. /\ FrameToSpokeSound(p, toSpoke[p][k]) /\ FrameDecided(p, toSpoke[p][k])
      /\ FrameFits(p, toSpoke[p][k])
  BY DEF GameInvariant, WiresSound, LockstepInvariant, WiresDecided, FramesFit
<1>3. /\ smallestUnreceivedTick' = [smallestUnreceivedTick EXCEPT ![p] = smallestUnreceivedTick'[p]]
      /\ outgoingReadTick' = [outgoingReadTick EXCEPT ![p] = outgoingReadTick'[p]]
      /\ smallestUnreceivedTick[p] <= smallestUnreceivedTick'[p]
      /\ \/ smallestUnreceivedTick'[p] <= outgoingReadTick'[p]
         \/ smallestUnreceivedTick'[p] - 1 \in Ticks /\ p \in madeUp[smallestUnreceivedTick'[p] - 1]
  BY <1>1, <1>2, ReceivedGrows
<1>4. /\ UNCHANGED <<connected, netDeadTick, smallestUnacknowledgedTick, flagsWriteTick, madeUp, toHub>>
      /\ UNCHANGED <<spokeActive, outgoingWriteTick>>
  BY <1>1 DEF ReceiptAction, hubVars, playerVars, queueVars, SpokeReceives
<1>5. /\ smallestUnreceivedTick \in [Players -> Int] /\ outgoingReadTick \in [Players -> FirstTick .. Horizon]
      /\ connected \subseteq Players
      /\ smallestUnacknowledgedTick \in [Players -> Int]
  BY Constants DEF GameInvariant, SpokesSound, HubInvariant, TypeOK
<1>6. \A r \in Players : r # p => /\ smallestUnreceivedTick'[r] = smallestUnreceivedTick[r]
                                  /\ outgoingReadTick'[r] = outgoingReadTick[r]
  BY <1>3, <1>5
<1>7. \A r \in Players : \A n \in Int : n <= smallestUnreceivedTick[r] => n <= smallestUnreceivedTick'[r]
  <2>1. ASSUME NEW n \in Int, n <= smallestUnreceivedTick[p] PROVE n <= smallestUnreceivedTick'[p]
    <3>1. smallestUnreceivedTick[p] \in Int
      BY <1>5
    <3>2. smallestUnreceivedTick'[p] \in Int
      <4>1. SpokesSound'
        BY ReceivesKeepsSound, <1>1 DEF ReceiptAction
      <4> QED BY <4>1, Constants DEF SpokesSound
    <3> QED BY <1>3, <2>1, <3>1, <3>2
  <2> QED BY <1>6, <2>1
<1>8. MachinesTyped' /\ ZombiesRest' /\ MakesUpTheRest' /\ NobodyLagsAlone'
  <2>1. ZombiesRest'
    BY <1>4 DEF LinksInvariant, ZombiesRest
  <2>2. MakesUpTheRest'
    BY <1>4 DEF LinksInvariant, MakesUpTheRest
  <2>3. MachinesTyped'
    BY <1>1, <1>2, ReceiptKeepsTyped DEF LinksInvariant
  <2> QED BY <1>4, <2>1, <2>2, <2>3 DEF LinksInvariant, NobodyLagsAlone
<1>9. AcksAreTrue'
  <2>1. ASSUME NEW r \in Players, NEW j \in DOMAIN toHub[r] PROVE FramePromises(r, toHub[r][j])'
    <3>1. FramePromises(r, toHub[r][j])
      BY DEF LinksInvariant, AcksAreTrue
    <3>2. toHub[r][j].type = "game data" => toHub[r][j].ack \in Int
      <4>1. FrameToHubSound(r, toHub[r][j])
        BY DEF GameInvariant, WiresSound
      <4>2. \A n \in FirstTick .. smallestUnsentTick : n \in Int
        OBVIOUS
      <4> QED BY <4>1, <4>2 DEF FrameToHubSound
    <3> QED BY <1>4, <1>7, <3>1, <3>2 DEF FramePromises
  <2>2. ASSUME NEW r \in connected PROVE smallestUnacknowledgedTick[r] <= smallestUnreceivedTick'[r]
    BY <1>5, <1>7 DEF LinksInvariant, AcksAreTrue
  <2> QED BY <1>4, <2>1, <2>2 DEF AcksAreTrue
<1>10. ReceivesItsOwn'
  <2>1. ASSUME NEW r \in Players
        PROVE  \/ smallestUnreceivedTick'[r] <= outgoingReadTick'[r]
               \/ smallestUnreceivedTick'[r] - 1 \in Ticks /\ r \in madeUp[smallestUnreceivedTick'[r] - 1]
    <3>1. CASE r = p
      BY <1>3, <3>1
    <3>2. CASE r # p
      BY <1>6, <3>2 DEF LinksInvariant, ReceivesItsOwn
    <3> QED BY <3>1, <3>2
  <2> QED BY <1>4, <2>1 DEF ReceivesItsOwn
<1> QED BY <1>8, <1>9, <1>10 DEF LinksInvariant

LEMMA OwnStepGrows ==
  ASSUME GameInvariant, MachinesTyped, NEW p \in Players, OwnStep(p)
  PROVE  /\ UNCHANGED <<smallestUnreceivedTick, outgoingReadTick, stillConnected, deadTick, spokeFailures>>
         /\ \A r \in Players : /\ outgoingWriteTick'[r] \in Int /\ outgoingWriteTick[r] <= outgoingWriteTick'[r]
                               /\ reallyNetDead[r] \subseteq reallyNetDead'[r]
                               /\ spokeActive'[r] => spokeActive[r]
<1>1. UNCHANGED <<smallestUnreceivedTick, outgoingReadTick, stillConnected, deadTick, spokeFailures>>
  BY DEF OwnStep, SpokeTick, SpokeGivesUp, ForgetConfirmed, GameAdvances, SpokeCleanup,
         spokeQueueVars, viewVars, receivedVars
<1>2. outgoingWriteTick \in [Players -> FirstTick .. Horizon]
  BY DEF GameInvariant, SpokesSound
<1>3. \A r \in Players : outgoingWriteTick'[r] \in Int /\ outgoingWriteTick[r] <= outgoingWriteTick'[r]
  <2>1. FlagsProvided(p) \in Nat
    BY FlagsFit DEF GameInvariant
  <2>2. \/ UNCHANGED outgoingWriteTick
        \/ outgoingWriteTick' = [outgoingWriteTick EXCEPT ![p] = outgoingWriteTick[p] + FlagsProvided(p)]
    BY DEF OwnStep, SpokeTick, ConnectedTick, CutOffTick, SpokeGivesUp, ForgetConfirmed, GameAdvances,
           SpokeCleanup, spokeQueueVars
  <2> HIDE DEF FlagsProvided
  <2>3. \A r \in Players : outgoingWriteTick[r] \in Int
    BY <1>2
  <2> QED BY <1>2, <2>1, <2>2, <2>3
<1>4. \A r \in Players : reallyNetDead[r] \subseteq reallyNetDead'[r]
  <2>1. \/ UNCHANGED reallyNetDead
        \/ reallyNetDead' = [reallyNetDead EXCEPT ![p] = @ \cup stillConnected[p]]
    BY DEF OwnStep, SpokeTick, SpokeGivesUp, ForgetConfirmed, GameAdvances, SpokeCleanup, viewVars
  <2> QED BY <2>1 DEF MachinesTyped
<1>5. \A r \in Players : spokeActive'[r] => spokeActive[r]
  <2>1. \/ UNCHANGED spokeActive
        \/ spokeActive' = [spokeActive EXCEPT ![p] = FALSE]
    BY DEF OwnStep, SpokeTick, SpokeGivesUp, ForgetConfirmed, GameAdvances, SpokeCleanup
  <2> QED BY <2>1 DEF MachinesTyped
<1> QED BY <1>1, <1>3, <1>4, <1>5

LEMMA OwnKeepsLinks ==
  ASSUME GameInvariant, LinksInvariant, NEW p \in Players, OwnAction(p)
  PROVE  LinksInvariant'
<1>1. OwnStep(p) /\ UNCHANGED <<connected, netDeadTick, smallestUnacknowledgedTick, flagsWriteTick, madeUp, toSpoke>>
  BY DEF OwnAction, hubVars, playerVars, queueVars
<1>2. MachinesTyped' /\ UNCHANGED <<smallestUnreceivedTick, outgoingReadTick>>
      /\ \A r \in Players : /\ outgoingWriteTick'[r] \in Int /\ outgoingWriteTick[r] <= outgoingWriteTick'[r]
                            /\ spokeActive'[r] => spokeActive[r]
  BY <1>1, OwnStepKeepsTyped, OwnStepGrows DEF LinksInvariant
<1>3. ZombiesRest' /\ ReceivesItsOwn' /\ NobodyLagsAlone'
  <2>1. ZombiesRest'
    BY <1>1, <1>2, SpokeConstants DEF LinksInvariant, ZombiesRest
  <2> QED BY <1>1, <1>2, <2>1 DEF LinksInvariant, ReceivesItsOwn, NobodyLagsAlone
<1>4. \A r \in Players : outgoingWriteTick[r] \in Int /\ flagsWriteTick[r] \in Int
  BY Constants DEF GameInvariant, HubInvariant, TypeOK, SpokesSound
<1>5. MakesUpTheRest'
  <2>1. \A r \in Players : \A t \in outgoingWriteTick'[r] .. flagsWriteTick[r] - 1 :
          t \in outgoingWriteTick[r] .. flagsWriteTick[r] - 1
    BY <1>2, <1>4
  <2> QED BY <1>1, <2>1 DEF LinksInvariant, MakesUpTheRest
<1>6. AcksAreTrue'
  <2> DEFINE Promised(r, f) == f.type = "game data" =>
               f.ack <= smallestUnreceivedTick'[r] /\ f.end <= outgoingWriteTick'[r]
  <2>1. ASSUME NEW r \in Players, NEW f, FramePromises(r, f), FrameToHubSound(r, f) PROVE Promised(r, f)
    <3>1. f.type = "game data" => f.end \in Int
      <4>1. \A n \in FirstTick .. Horizon : n \in Int
        OBVIOUS
      <4> QED BY <2>1, <4>1 DEF FrameToHubSound
    <3>2. outgoingWriteTick[r] \in Int /\ outgoingWriteTick'[r] \in Int
          /\ outgoingWriteTick[r] <= outgoingWriteTick'[r] /\ smallestUnreceivedTick'[r] = smallestUnreceivedTick[r]
      BY <1>2, <1>4
    <3>3. ASSUME f.type = "game data"
          PROVE  f.ack <= smallestUnreceivedTick'[r] /\ f.end <= outgoingWriteTick'[r]
      <4>1. f.ack <= smallestUnreceivedTick[r] /\ f.end <= outgoingWriteTick[r] /\ f.end \in Int
        BY <2>1, <3>1, <3>3 DEF FramePromises
      <4> QED BY <3>2, <4>1
    <3> QED BY <3>3
  <2>2. ASSUME NEW r \in Players, NEW k \in DOMAIN toHub'[r]
        PROVE  \/ toHub'[r][k] = GameDataFrame(r)' \/ toHub'[r][k] = IdentificationFrame
               \/ \E j \in DOMAIN toHub[r] : toHub'[r][k] = toHub[r][j]
    <3>1. toHub = [q \in Players |-> toHub[q]] /\ IsSequence(toHub[r])
      BY DEF GameInvariant, WiresSound
    <3>2. \/ toHub'[r] = toHub[r]
          \/ toHub'[r] = Sent(toHub[r], GameDataFrame(r)')
          \/ toHub'[r] = Sent(toHub[r], IdentificationFrame)
      BY <3>1 DEF OwnAction
    <3> QED BY <2>2, <3>1, <3>2, OneMoreSent
  <2>3. ASSUME NEW r \in Players, NEW k \in DOMAIN toHub'[r] PROVE Promised(r, toHub'[r][k])
    <3>1. CASE toHub'[r][k] = GameDataFrame(r)'
      <4>1. smallestUnreceivedTick'[r] \in Int /\ outgoingWriteTick'[r] \in Int
        BY <1>2, Constants DEF GameInvariant, SpokesSound
      <4>2. /\ GameDataFrame(r)'.ack = smallestUnreceivedTick'[r]
            /\ GameDataFrame(r)'.end = outgoingWriteTick'[r]
        BY DEF GameDataFrame
      <4>3. /\ toHub'[r][k].ack <= smallestUnreceivedTick'[r]
            /\ toHub'[r][k].end <= outgoingWriteTick'[r]
        BY <3>1, <4>1, <4>2
      <4> QED BY <4>3
    <3>2. CASE toHub'[r][k] = IdentificationFrame
      BY <3>2 DEF IdentificationFrame
    <3>3. CASE \E j \in DOMAIN toHub[r] : toHub'[r][k] = toHub[r][j]
      <4>1. PICK j \in DOMAIN toHub[r] : toHub'[r][k] = toHub[r][j]
        BY <3>3
      <4>2. FramePromises(r, toHub[r][j]) /\ FrameToHubSound(r, toHub[r][j])
        BY DEF LinksInvariant, AcksAreTrue, GameInvariant, WiresSound
      <4>3. Promised(r, toHub[r][j])
        BY <2>1, <4>2
      <4> QED BY <4>1, <4>3
    <3> QED BY <2>2, <3>1, <3>2, <3>3
  <2>4. \A r \in connected : smallestUnacknowledgedTick[r] <= smallestUnreceivedTick[r]
    BY DEF LinksInvariant, AcksAreTrue
  <2> QED BY <1>1, <1>2, <2>3, <2>4 DEF AcksAreTrue, FramePromises
<1> QED BY <1>2, <1>3, <1>5, <1>6 DEF LinksInvariant

LEMMA NothingKeepsLinks == ASSUME LinksInvariant, NoAction PROVE LinksInvariant'
<1>1. /\ UNCHANGED <<connected, netDeadTick, smallestUnacknowledgedTick, flagsWriteTick, madeUp>>
      /\ UNCHANGED <<spokeActive, outgoingReadTick, outgoingWriteTick, smallestUnreceivedTick>>
  BY DEF NoAction, hubVars, playerVars, queueVars, spokeVars, spokeQueueVars, receivedVars
<1>2. MachinesTyped'
  BY DEF NoAction, spokeVars, viewVars, clockVars, LinksInvariant, MachinesTyped
<1>3. AcksAreTrue'
  <2>1. ASSUME NEW r \in Players, NEW k \in DOMAIN toHub'[r] PROVE FramePromises(r, toHub[r][k])'
    <3>1. toHub'[r] = toHub[r] /\ k \in DOMAIN toHub[r]
      BY <2>1, EmptySequence DEF NoAction, OnlyTakenFromHub
    <3> QED BY <1>1, <3>1 DEF LinksInvariant, AcksAreTrue, FramePromises
  <2> QED BY <1>1, <2>1 DEF LinksInvariant, AcksAreTrue
<1> QED BY <1>1, <1>2, <1>3
   DEF LinksInvariant, ZombiesRest, MakesUpTheRest, ReceivesItsOwn, NobodyLagsAlone

-----------------------------------------------------------------------------
(* How deaths become known.                                                  *)

\* Frames for p name, as far as p knows by them, those whose flags they hold.
LEMMA SentFits ==
  ASSUME HubInvariant, HubBooks, HubRemembers, ZombiesRest, AcksAreTrue, SpokesSound, DeathsKnown,
         NEW i \in connected, NEW large, NEW a
  PROVE  FrameFits(i, HubFrame(i, large, a))
<1> DEFINE ticks    == UpdateRange(i, large)[1] .. UpdateRange(i, large)[2] - 1
           reflects == \E t \in ticks : i \in playerReflectedFlags[t]
           sent(t)  == {j \in Players : Contributes(j, t) /\ (j = i => reflects)}
           flags(t) == [j \in sent(t) |-> IF j \in playerReflectedFlags[t] THEN MadeUp(t) ELSE Real(t)]
           S        == {u \in ticks : sent(u) # {}}
           f        == HubFrame(i, large, a)
<1>1. /\ f.flags = [t \in S |-> flags(t)] /\ f.reflects = reflects /\ f.ack = flagsWriteTick[i]
      /\ f.deaths = {<<j, netDeadTick[j]>> : j \in {k \in Players : smallestUnacknowledgedTick[i] <= netDeadTick[k]}}
  BY DEF HubFrame, Acknowledgement
<1>2. DOMAIN f.flags = S /\ \A t \in S : DOMAIN f.flags[t] = sent(t)
  BY <1>1
<1>3. \A t \in ticks : t \in Ticks /\ t < smallestIncompleteTick
  BY RangeIsQueued
<1>4. /\ smallestIncompleteTick \in Int /\ flagsWriteTick[i] \in Int /\ smallestIncompleteTick <= flagsWriteTick[i]
      /\ netDeadTick \in [Players -> Int] /\ smallestUnacknowledgedTick[i] \in Int
      /\ FirstTick <= smallestUnacknowledgedTick[i] /\ FirstTick \in Int
      /\ i \in Players /\ i \in InGame /\ netDeadTick[i] = FirstTick - 1
      /\ smallestUnreceivedTick[i] \in Int
      /\ smallestUnacknowledgedTick[i] <= smallestUnreceivedTick[i]
  <2>1. smallestIncompleteTick <= flagsWriteTick[i]
    <3>1. i \in Players
      BY DEF HubInvariant, TypeOK
    <3> QED BY <3>1 DEF HubInvariant, QueuesLineUp, Booked
  <2>2. i \in Players /\ i \in InGame /\ netDeadTick[i] = FirstTick - 1
        /\ smallestUnacknowledgedTick[i] <= smallestUnreceivedTick[i]
    BY DEF ZombiesRest, HubBooks, AcksAreTrue, InGame
  <2>3. /\ smallestIncompleteTick \in Int /\ flagsWriteTick[i] \in Int
        /\ smallestUnacknowledgedTick[i] \in FirstTick .. Horizon /\ FirstTick \in Int /\ Horizon \in Int
    BY <2>2, Constants DEF HubInvariant, TypeOK
  <2>4. netDeadTick \in [Players -> Int]
    <3>1. \A n \in FirstTick - 1 .. Horizon : n \in Int
      OBVIOUS
    <3> QED BY <3>1 DEF HubInvariant, TypeOK
  <2>5. smallestUnreceivedTick[i] \in Int
    BY <2>2, Constants DEF SpokesSound
  <2> QED BY <2>1, <2>2, <2>3, <2>4, <2>5
<1>5. \A t \in ticks : \A z \in Zombies : ~Contributes(z, t)
  <2>1. \A t \in ticks : FirstTick <= t /\ t \in Int
    BY <1>3, Constants
  <2>2. \A z \in Zombies : z \notin connected /\ netDeadTick[z] = FirstTick - 1
    BY DEF ZombiesRest, InGame
  <2> QED BY <1>4, <2>1, <2>2 DEF Contributes
<1> HIDE DEF f
<1>6. ASSUME NEW t \in S
      PROVE  DOMAIN f.flags[t] = {q \in InGame : (q \in connected \/ t < netDeadTick[q]) /\ (q = i => f.reflects)}
  <2>1. sent(t) = {q \in InGame : Contributes(q, t) /\ (q = i => reflects)}
    BY <1>5 DEF InGame
  <2> QED BY <1>1, <1>2, <2>1 DEF Contributes
<1>7. ASSUME NEW t \in S, NEW q \in InGame, q \notin connected, netDeadTick[q] <= t
      PROVE  q \notin StillConnected(i, f)
  <2>1. q \in Players /\ q # i
    BY <1>7 DEF InGame
  <2>2. CASE smallestUnacknowledgedTick[i] <= netDeadTick[q]
    <3> HIDE DEF S, reflects
    <3>1. <<q, netDeadTick[q]>> \in f.deaths
      BY <1>1, <2>1, <2>2
    <3> QED BY <3>1 DEF StillConnected
  <2>3. CASE ~(smallestUnacknowledgedTick[i] <= netDeadTick[q])
    <3>1. netDeadTick[q] < smallestUnreceivedTick[i]
      BY <1>4, <2>1, <2>3
    <3>2. q \notin stillConnected[i]
      BY <1>4, <1>7, <2>1, <3>1 DEF DeathsKnown
    <3> QED BY <3>2 DEF StillConnected
  <2> QED BY <2>2, <2>3
<1>8. ASSUME NEW death \in f.deaths PROVE death[1] # i /\ death[1] \in InGame
  <2>1. PICK j \in Players : death = <<j, netDeadTick[j]>> /\ smallestUnacknowledgedTick[i] <= netDeadTick[j]
    BY <1>1
  <2>2. netDeadTick[j] # FirstTick - 1
    BY <1>4, <2>1
  <2>3. j # i /\ j \notin Zombies
    BY <1>4, <2>2 DEF ZombiesRest
  <2> QED BY <2>1, <2>3 DEF InGame
<1>9. f.reflects => \E t \in Ticks : i \in madeUp[t]
  BY <1>1, <1>3 DEF HubRemembers
<1>10. \A t \in S : t < f.ack /\ sent(t) # {}
  <2>1. \A t \in ticks : t \in Int
    OBVIOUS
  <2> QED BY <1>1, <1>3, <1>4, <2>1
<1> HIDE DEF S, sent, ticks
<1> QED BY <1>2, <1>4, <1>6, <1>7, <1>8, <1>9, <1>10 DEF FrameFits, f

SendsWhatFits == \A i \in connected : \A large, a : FrameFits(i, HubFrame(i, large, a))

LEMMA SentFitsNext ==
  HubInvariant' /\ HubBooks' /\ HubRemembers' /\ ZombiesRest' /\ AcksAreTrue' /\ SpokesSound' /\ DeathsKnown'
    => SendsWhatFits'
<1>1. HubInvariant /\ HubBooks /\ HubRemembers /\ ZombiesRest /\ AcksAreTrue /\ SpokesSound /\ DeathsKnown
        => SendsWhatFits
  BY SentFits DEF SendsWhatFits
<1> QED BY <1>1, PTL

\* What the hub knows of the dead in a tick it has sent.
LEMMA DeadStayDead ==
  ASSUME GameInvariant, GameInvariant', HubAction, NEW q \in Players, NEW t \in Int, t < smallestUnsentTick
  PROVE  /\ (q \in connected \/ t < netDeadTick[q]) <=> (q \in connected' \/ t < netDeadTick'[q])
         /\ q \notin connected' /\ netDeadTick'[q] <= t => q \notin connected /\ netDeadTick'[q] = netDeadTick[q]
<1>1. smallestUnsentTick \in Int /\ smallestIncompleteTick \in Int /\ smallestUnsentTick <= smallestIncompleteTick
  BY Constants DEF GameInvariant, HubInvariant, TypeOK, QueuesLineUp
<1>2. CASE q \notin connected
  BY <1>2 DEF HubAction, SettledStands
<1>3. CASE q \in connected
  <2>1. q \in connected' \/ netDeadTick'[q] = smallestIncompleteTick
    BY <1>3 DEF HubAction, HubMoves
  <2>2. t < smallestIncompleteTick
    BY <1>1
  <2> QED BY <1>1, <1>3, <2>1, <2>2
<1> QED BY <1>2, <1>3

LEMMA HubKeepsDeathsKnown ==
  ASSUME GameInvariant, GameInvariant', HubAction, DeathsKnown
  PROVE  DeathsKnown'
<1>1. UNCHANGED <<smallestUnreceivedTick, stillConnected, reallyNetDead>> /\ connected' \subseteq connected
  BY DEF HubAction, HubMoves, spokeVars, viewVars, receivedVars
<1>2. /\ smallestUnsentTick \in Int /\ smallestIncompleteTick \in Int
      /\ smallestUnsentTick <= smallestIncompleteTick
      /\ \A p \in Players : /\ smallestUnreceivedTick[p] \in Int /\ netDeadTick'[p] \in Int
                            /\ smallestUnreceivedTick[p] <= smallestUnsentTick
  BY Constants DEF GameInvariant, HubInvariant, TypeOK, QueuesLineUp, SpokesSound
<1>3. \A q \in Players : \/ q \notin connected /\ q \notin connected' /\ netDeadTick'[q] = netDeadTick[q]
                         \/ q \in connected'
                         \/ netDeadTick'[q] = smallestIncompleteTick
  BY DEF HubAction, HubMoves, SettledStands
<1>4. ASSUME NEW p \in InGame, NEW q \in InGame, q # p, q \notin connected', netDeadTick'[q] < smallestUnreceivedTick[p]
      PROVE  q \notin stillConnected[p] /\ (connected' \ {p} # {} => q \in reallyNetDead[p])
  <2>1. q \notin connected /\ netDeadTick'[q] = netDeadTick[q]
    BY <1>2, <1>3, <1>4 DEF InGame
  <2> QED BY <1>1, <1>4, <2>1 DEF DeathsKnown
<1>5. ASSUME NEW p \in InGame, p \notin connected', connected' # {}
      PROVE  smallestUnreceivedTick[p] <= netDeadTick'[p]
  <2>1. CASE p \notin connected /\ netDeadTick'[p] = netDeadTick[p]
    BY <1>1, <1>5, <2>1 DEF DeathsKnown
  <2>2. CASE netDeadTick'[p] = smallestIncompleteTick
    BY <1>2, <2>2 DEF InGame
  <2> QED BY <1>3, <1>5, <2>1, <2>2 DEF InGame
<1> QED BY <1>1, <1>4, <1>5 DEF DeathsKnown

LEMMA OldFramesFit ==
  ASSUME GameInvariant, GameInvariant', HubAction, NEW p \in Players, NEW f,
         FrameToSpokeSound(p, f), FrameFits(p, f)
  PROVE  FrameFits(p, f)'
<1>1. UNCHANGED stillConnected /\ \A t \in Ticks : madeUp[t] \subseteq madeUp'[t]
  BY DEF HubAction, spokeVars, viewVars, RemembersMadeUp
<1>2. \A t \in DOMAIN f.flags : t \in Int /\ t < smallestUnsentTick
  <2>1. smallestUnsentTick \in Int /\ FirstTick \in Int
    BY Constants DEF GameInvariant, HubInvariant, TypeOK
  <2>2. \A t \in FirstTick .. smallestUnsentTick - 1 : t \in Int /\ t < smallestUnsentTick
    BY <2>1
  <2> QED BY <2>2 DEF FrameToSpokeSound
<1>3. ASSUME NEW t \in DOMAIN f.flags, NEW q \in InGame
      PROVE  /\ (q \in connected \/ t < netDeadTick[q]) <=> (q \in connected' \/ t < netDeadTick'[q])
             /\ q \notin connected' /\ netDeadTick'[q] <= t => q \notin connected /\ netDeadTick'[q] = netDeadTick[q]
  BY <1>2, DeadStayDead DEF InGame
<1>4. ASSUME NEW t \in DOMAIN f.flags
      PROVE  /\ t < f.ack
             /\ DOMAIN f.flags[t] = {q \in InGame : /\ q \in connected' \/ t < netDeadTick'[q]
                                                    /\ q = p => f.reflects}
             /\ DOMAIN f.flags[t] # {}
             /\ \A q \in InGame : q \notin connected' /\ netDeadTick'[q] <= t => q \notin StillConnected(p, f)
             /\ p \notin connected' => t < netDeadTick'[p]
  <2>1. t < f.ack /\ DOMAIN f.flags[t] # {} /\ p \in InGame /\ (p \notin connected => t < netDeadTick[p])
    BY DEF FrameFits
  <2>2. DOMAIN f.flags[t] = {q \in InGame : (q \in connected \/ t < netDeadTick[q]) /\ (q = p => f.reflects)}
    BY DEF FrameFits
  <2>3. \A q \in InGame : q \notin connected' /\ netDeadTick'[q] <= t => q \notin StillConnected(p, f)
    BY <1>3 DEF FrameFits
  <2>4. DOMAIN f.flags[t] = {q \in InGame : (q \in connected' \/ t < netDeadTick'[q]) /\ (q = p => f.reflects)}
    BY <1>3, <2>2
  <2>5. p \notin connected' => t < netDeadTick'[p]
    <3>1. p \in connected \/ t < netDeadTick[p]
      BY <2>1
    <3> QED BY <1>3, <2>1, <3>1
  <2> QED BY <2>1, <2>3, <2>4, <2>5
<1>5. StillConnected(p, f)' = StillConnected(p, f)
  BY <1>1 DEF StillConnected
<1>6. f.reflects => \E t \in Ticks : p \in madeUp'[t]
  BY <1>1 DEF FrameFits
<1>7. p \in InGame /\ \A death \in f.deaths : death[1] # p /\ death[1] \in InGame
  BY DEF FrameFits
<1> QED BY <1>4, <1>5, <1>6, <1>7 DEF FrameFits

LEMMA HubKeepsDeaths ==
  ASSUME GameInvariant, GameInvariant', LockstepInvariant, LockstepInvariant', LinksInvariant',
         HubAction, DeathsInvariant
  PROVE  DeathsInvariant'
<1>1. DeathsKnown'
  BY HubKeepsDeathsKnown DEF DeathsInvariant
<1>2. SendsWhatFits'
  <2>1. HubInvariant' /\ HubBooks' /\ SpokesSound'
    BY DEF GameInvariant
  <2>2. HubRemembers' /\ ZombiesRest' /\ AcksAreTrue'
    BY DEF LockstepInvariant, LinksInvariant
  <2> QED BY <1>1, <2>1, <2>2, SentFitsNext
<1>3. PICK large : \E asks : HubWires(large, asks)
  BY Zenon DEF HubAction
<1>4. PICK asks : HubWires(large, asks)
  BY <1>3
<1>5. ASSUME NEW p \in Players
      PROVE  \/ toSpoke'[p] = toSpoke[p]
             \/ \E f : FrameFits(p, f)' /\ toSpoke'[p] = Sent(toSpoke[p], f)
  <2>1. CASE ~HubSends
    BY <1>4, <2>1 DEF HubWires
  <2>2. CASE HubSends
    <3> DEFINE b == IF p \in DOMAIN asks THEN asks[p] ELSE 0
               f == HubFrame(p, p \in large, b)
    <3>1. toSpoke'[p] = IF p \in connected /\ p \in addressKnown THEN Sent(toSpoke[p], f') ELSE toSpoke[p]
      BY <1>4, <2>2 DEF HubWires
    <3>2. connected' = connected
      BY <2>2 DEF HubAction, HubAdvances
    <3>3. ASSUME p \in connected' PROVE FrameFits(p, f)'
      BY <1>2, <3>3 DEF SendsWhatFits
    <3> HIDE DEF f
    <3>4. ASSUME p \in connected' PROVE \E g : FrameFits(p, g)' /\ g = f'
      BY <3>3, <3>4 DEF FrameFits, StillConnected
    <3> QED BY <3>1, <3>2, <3>4
  <2> QED BY <2>1, <2>2
<1>6. ASSUME NEW p \in Players, NEW k \in DOMAIN toSpoke'[p] PROVE FrameFits(p, toSpoke[p][k])'
  <2>1. \A j \in DOMAIN toSpoke[p] : \E g : g = toSpoke[p][j] /\ FrameFits(p, g)'
    <3>1. ASSUME NEW j \in DOMAIN toSpoke[p]
          PROVE  FrameToSpokeSound(p, toSpoke[p][j]) /\ FrameFits(p, toSpoke[p][j])
      BY DEF GameInvariant, WiresSound, DeathsInvariant, FramesFit
    <3> QED BY <3>1, OldFramesFit
  <2>2. \E g : g = toSpoke'[p][k] /\ FrameFits(p, g)'
    <3>1. CASE toSpoke'[p] = toSpoke[p]
      BY <1>6, <2>1, <3>1
    <3>2. ASSUME NEW f, FrameFits(p, f)', toSpoke'[p] = Sent(toSpoke[p], f)
          PROVE  \E g : g = toSpoke'[p][k] /\ FrameFits(p, g)'
      <4>1. IsSequence(toSpoke[p])
        BY DEF GameInvariant, WiresSound
      <4>2. toSpoke'[p][k] = f \/ \E j \in DOMAIN toSpoke[p] : toSpoke'[p][k] = toSpoke[p][j]
        BY <1>6, <3>2, <4>1, OneMoreSent
      <4> QED BY <2>1, <3>2, <4>2
    <3> QED BY <1>5, <3>1, <3>2
  <2> QED BY <2>2 DEF FrameFits, StillConnected
<1> QED BY <1>1, <1>6 DEF DeathsInvariant, FramesFit

\* p learns of the deaths in the ticks it takes, and takes nothing after its own.
LEMMA ReceiptKeepsDeathsKnown ==
  ASSUME GameInvariant, LockstepInvariant, LinksInvariant, DeathsKnown, UNCHANGED hubVars,
         NEW p \in Players, NEW f, FrameToSpokeSound(p, f), FrameDecided(p, f), FrameFits(p, f),
         SpokeReceives(p, f)
  PROVE  DeathsKnown'
<1> DEFINE su  == smallestUnreceivedTick[p]
           su2 == smallestUnreceivedTick'[p]
           Knows(q) == q \notin stillConnected'[p] /\ (connected \ {p} # {} => q \in reallyNetDead'[p])
           Ends == p \notin connected /\ connected # {} => su2 <= netDeadTick[p]
           Learns == \A q \in InGame : q # p /\ q \notin connected /\ netDeadTick[q] < su2 => Knows(q)
<1>1. /\ UNCHANGED <<connected, netDeadTick>> /\ p \in InGame /\ p \in Players /\ su \in Int
      /\ netDeadTick \in [Players -> Int] /\ connected \subseteq InGame
      /\ su <= su2
  <2>1. UNCHANGED <<connected, netDeadTick>> /\ p \in InGame /\ su \in Int /\ connected \subseteq InGame
    BY Constants DEF hubVars, playerVars, FrameFits, GameInvariant, SpokesSound, LinksInvariant, ZombiesRest
  <2>2. netDeadTick \in [Players -> Int]
    <3>1. \A n \in FirstTick - 1 .. Horizon : n \in Int
      OBVIOUS
    <3> QED BY <3>1 DEF GameInvariant, HubInvariant, TypeOK
  <2> QED BY <2>1, <2>2, ReceivedGrows
<1>2. \A r \in Players \ {p} : /\ smallestUnreceivedTick'[r] = smallestUnreceivedTick[r]
                               /\ stillConnected'[r] = stillConnected[r]
                               /\ reallyNetDead'[r] = reallyNetDead[r]
  <2>1. \A r \in Players \ {p} : /\ smallestUnreceivedTick'[r] = smallestUnreceivedTick[r]
                                 /\ stillConnected'[r] = stillConnected[r]
    BY OthersStay DEF GameInvariant, LockstepInvariant, SpokesDecided
  <2>2. \/ UNCHANGED reallyNetDead
        \/ \E S : reallyNetDead' = [reallyNetDead EXCEPT ![p] = S]
    BY ReceiptKinds DEF TakesNothing, TakesItsOwn, ReceiveNoFlags, TakesFlags, ReceiveFlags
  <2>3. \A r \in Players \ {p} : reallyNetDead'[r] = reallyNetDead[r]
    BY <2>2 DEF LinksInvariant, MachinesTyped
  <2> QED BY <2>1, <2>3
<1>3. /\ stillConnected'[p] \subseteq stillConnected[p]
      /\ TakesView(p, f) => stillConnected'[p] = StillConnected(p, f)
  <2>1. StillConnected(p, f) \subseteq stillConnected[p]
    BY DEF StillConnected
  <2> QED BY <2>1, ReceiptKinds DEF TakesView, LinksInvariant, MachinesTyped
<1>4. reallyNetDead[p] \subseteq reallyNetDead'[p]
  <2>1. \/ UNCHANGED reallyNetDead
        \/ \E S : reallyNetDead' = [reallyNetDead EXCEPT ![p] = @ \cup S]
    BY ReceiptKinds DEF TakesNothing, TakesItsOwn, ReceiveNoFlags, TakesFlags, ReceiveFlags
  <2> QED BY <2>1 DEF LinksInvariant, MachinesTyped
<1>5. \A q \in InGame : q # p /\ q \notin connected /\ netDeadTick[q] < su => Knows(q)
  BY <1>1, <1>3, <1>4 DEF DeathsKnown
<1>6. p \notin connected /\ connected # {} => su <= netDeadTick[p]
  BY <1>1 DEF DeathsKnown
<1>7. ASSUME su2 = su PROVE Learns /\ Ends
  BY <1>5, <1>6, <1>7
<1>8. ASSUME TakesView(p, f), TakesItsOwn(p, f) PROVE Learns /\ Ends
  <2>1. \A q \in InGame \ {p} : q \notin StillConnected(p, f)
    BY <1>8 DEF TakesItsOwn, WeAreAlone, InGame
  <2>2. \A q \in InGame \ {p} : q \notin connected
    BY <2>1, DeathsTold DEF GameInvariant, LockstepInvariant, SpokesDecided
  <2>3. connected \ {p} = {}
    BY <1>1, <2>2
  <2> QED BY <1>3, <1>8, <2>1, <2>3
<1>9. ASSUME TakesView(p, f), NEW start \in Int, NEW stop \in Int, TakesFlags(p, f, start, stop)
      PROVE  Learns /\ Ends
  <2>1. CASE FailedAsserts(p, f, start, stop) # {}
    BY <1>7, <1>9, <2>1 DEF TakesFlags, ReceiveFlags, receivedVars
  <2>2. CASE FailedAsserts(p, f, start, stop) = {}
    <3>1. /\ smallestUnreceivedTick' = [smallestUnreceivedTick EXCEPT ![p] = Larger(@, stop)]
          /\ reallyNetDead' = [reallyNetDead EXCEPT ![p] = @ \cup MadeNetDead(p, f, stop)]
      BY <1>9, <2>2 DEF TakesFlags, ReceiveFlags
    <3>2. su2 = Larger(su, stop) /\ MadeNetDead(p, f, stop) \subseteq reallyNetDead'[p]
      <4>1. smallestUnreceivedTick = [r \in Players |-> smallestUnreceivedTick[r]]
            /\ reallyNetDead = [r \in Players |-> reallyNetDead[r]]
        BY DEF GameInvariant, SpokesSound, LinksInvariant, MachinesTyped
      <4> QED BY <3>1, <4>1
    <3>3. start <= su /\ start .. stop - 1 \subseteq DOMAIN f.flags
      BY <1>9 DEF TakesFlags
    <3> HIDE DEF su2, Knows
    <3>4. CASE stop <= su
      BY <1>1, <1>7, <3>2, <3>4 DEF Larger
    <3>5. CASE ~(stop <= su)
      <4>1. su2 = stop
        BY <1>1, <3>2, <3>5 DEF Larger
      <4>2. \A t \in su .. stop - 1 : t \in DOMAIN f.flags
        BY <1>1, <3>3
      <4>3. ASSUME NEW q \in InGame, q # p, q \notin connected, netDeadTick[q] < stop, ~(netDeadTick[q] < su)
            PROVE  Knows(q)
        <5>1. netDeadTick[q] \in Int /\ netDeadTick[q] \in su .. stop - 1
          BY <1>1, <4>3 DEF InGame
        <5>2. q \notin StillConnected(p, f)
          BY <4>2, <4>3, <5>1 DEF FrameFits
        <5>3. DeadTicks(p, f)[q] = netDeadTick[q]
          BY <5>2, DeathsTold DEF GameInvariant, LockstepInvariant, SpokesDecided
        <5>4. q \in MadeNetDead(p, f, stop)
          BY <4>3, <5>1, <5>2, <5>3 DEF MadeNetDead, InGame
        <5> QED BY <1>3, <1>9, <3>2, <5>2, <5>4 DEF Knows
      <4>4. Ends
        <5>1. stop - 1 \in DOMAIN f.flags
          BY <1>1, <3>5, <4>2
        <5>2. p \notin connected => stop - 1 < netDeadTick[p]
          BY <5>1 DEF FrameFits
        <5> QED BY <1>1, <4>1, <5>2
      <4>5. Learns
        BY <1>5, <4>1, <4>3
      <4> QED BY <4>4, <4>5
    <3> QED BY <3>4, <3>5
  <2> QED BY <2>1, <2>2
<1>10. Learns /\ Ends
  <2>1. TakesNothing(p) => su2 = su
    BY DEF TakesNothing
  <2> QED BY <1>7, <1>8, <1>9, <2>1, ReceiptKinds
<1> HIDE DEF su, su2
<1>11. ASSUME NEW r \in InGame, NEW q \in InGame, q # r, q \notin connected, netDeadTick[q] < smallestUnreceivedTick'[r]
       PROVE  q \notin stillConnected'[r] /\ (connected \ {r} # {} => q \in reallyNetDead'[r])
  <2>1. CASE r = p
    BY <1>10, <1>11, <2>1 DEF su2
  <2>2. CASE r # p
    BY <1>2, <1>11, <2>2 DEF DeathsKnown, InGame
  <2> QED BY <2>1, <2>2
<1>12. ASSUME NEW r \in InGame, r \notin connected, connected # {} PROVE smallestUnreceivedTick'[r] <= netDeadTick[r]
  <2>1. CASE r = p
    BY <1>10, <1>12, <2>1 DEF su2
  <2>2. CASE r # p
    BY <1>2, <1>12, <2>2 DEF DeathsKnown, InGame
  <2> QED BY <2>1, <2>2
<1> QED BY <1>1, <1>11, <1>12 DEF DeathsKnown

\* Frames fit as long as machines know no less of the dead.
LEMMA FramesStayFitting ==
  ASSUME FramesFit, UNCHANGED <<connected, netDeadTick, madeUp>>, OnlyTakenFromSpokes,
         \A p \in Players : stillConnected'[p] \subseteq stillConnected[p]
  PROVE  FramesFit'
<1>1. ASSUME NEW p \in Players, NEW k \in DOMAIN toSpoke'[p] PROVE FrameFits(p, toSpoke[p][k])'
  <2>1. toSpoke'[p] = toSpoke[p] /\ k \in DOMAIN toSpoke[p]
    BY <1>1, EmptySequence DEF OnlyTakenFromSpokes
  <2>2. \A f : StillConnected(p, f)' \subseteq StillConnected(p, f)
    BY DEF StillConnected
  <2>3. FrameFits(p, toSpoke[p][k])
    BY <2>1 DEF FramesFit
  <2> QED BY <2>1, <2>2, <2>3 DEF FrameFits
<1> QED BY <1>1 DEF FramesFit

LEMMA OtherActionsKeepDeaths ==
  ASSUME GameInvariant, LockstepInvariant, LinksInvariant, DeathsInvariant,
         NoAction \/ \E p \in Players : ReceiptAction(p) \/ OwnAction(p)
  PROVE  DeathsInvariant'
<1>1. ASSUME NEW p \in Players, ReceiptAction(p) PROVE DeathsInvariant'
  <2>1. PICK k \in DOMAIN toSpoke[p] : SpokeReceives(p, toSpoke[p][k])
    BY <1>1 DEF ReceiptAction
  <2>2. /\ FrameToSpokeSound(p, toSpoke[p][k]) /\ FrameDecided(p, toSpoke[p][k])
        /\ FrameFits(p, toSpoke[p][k])
    BY DEF GameInvariant, WiresSound, LockstepInvariant, WiresDecided, DeathsInvariant, FramesFit
  <2>3. UNCHANGED hubVars /\ UNCHANGED <<connected, netDeadTick, madeUp>> /\ OnlyTakenFromSpokes
    BY <1>1 DEF ReceiptAction, hubVars, playerVars
  <2>4. DeathsKnown'
    BY <2>1, <2>2, <2>3, ReceiptKeepsDeathsKnown DEF DeathsInvariant
  <2>5. \A r \in Players : stillConnected'[r] \subseteq stillConnected[r]
    <3>1. StillConnected(p, toSpoke[p][k]) \subseteq stillConnected[p]
      BY DEF StillConnected
    <3> QED BY <2>1, <3>1, OthersStay DEF GameInvariant, LockstepInvariant, SpokesDecided
  <2> QED BY <2>3, <2>4, <2>5, FramesStayFitting DEF DeathsInvariant
<1>2. ASSUME NEW p \in Players, OwnAction(p) PROVE DeathsInvariant'
  <2>1. OwnStep(p) /\ UNCHANGED <<connected, netDeadTick, madeUp>> /\ UNCHANGED toSpoke
    BY <1>2 DEF OwnAction, hubVars, playerVars
  <2>2. /\ UNCHANGED <<smallestUnreceivedTick, stillConnected>>
        /\ \A r \in Players : reallyNetDead[r] \subseteq reallyNetDead'[r]
    BY <2>1, OwnStepGrows DEF LinksInvariant
  <2>3. DeathsKnown'
    BY <2>1, <2>2 DEF DeathsInvariant, DeathsKnown, InGame
  <2> QED BY <2>1, <2>2, <2>3, FramesStayFitting, WiresUntouched DEF DeathsInvariant
<1>3. ASSUME NoAction PROVE DeathsInvariant'
  <2>1. UNCHANGED <<connected, netDeadTick, madeUp, smallestUnreceivedTick, stillConnected, reallyNetDead>>
        /\ OnlyTakenFromSpokes
    BY <1>3 DEF NoAction, hubVars, playerVars, spokeVars, viewVars, receivedVars
  <2>2. DeathsKnown'
    BY <2>1 DEF DeathsInvariant, DeathsKnown
  <2> QED BY <2>1, <2>2, FramesStayFitting DEF DeathsInvariant
<1> QED BY <1>1, <1>2, <1>3

-----------------------------------------------------------------------------

SpokesInvariant == GameInvariant /\ LockstepInvariant /\ LinksInvariant /\ DeathsInvariant

LEMMA SpokesStep ==
  ASSUME ~Standalone, SpokesInvariant, [GameNext]_gameVars
  PROVE  SpokesInvariant'
<1>1. GameInvariant' /\ LockstepInvariant'
  BY GameStep, LockstepStep DEF SpokesInvariant
<1>2. HubAction \/ NoAction \/ \E p \in Players : ReceiptAction(p) \/ OwnAction(p)
  BY StepKinds DEF SpokesInvariant
<1>3. LinksInvariant'
  BY <1>1, <1>2, HubKeepsLinks, ReceiptKeepsLinks, OwnKeepsLinks, NothingKeepsLinks
     DEF SpokesInvariant, DeathsInvariant
<1>4. DeathsInvariant'
  BY <1>1, <1>2, <1>3, HubKeepsDeaths, OtherActionsKeepDeaths DEF SpokesInvariant
<1> QED BY <1>1, <1>3, <1>4 DEF SpokesInvariant

LEMMA SpokesBegin == ASSUME ~Standalone, GameInit PROVE SpokesInvariant
<1>1. GameInvariant /\ LockstepInvariant
  BY GameInitInvariant, LockstepInit
<1>2. /\ Init /\ connected = InGame /\ SpokeInit(connected)
      /\ toHub = [p \in Players |-> << >>] /\ toSpoke = [p \in Players |-> << >>]
      /\ madeUp = [t \in Ticks |-> {}]
  BY DEF GameInit, InGame
<1>3. MachinesTyped
  <2>1. /\ 0 \in 0 .. HubSilenceCap /\ 0 \in 0 .. SpokeRecoverySendPeriod
        /\ 0 \in 0 .. IdentificationPeriod - 1 /\ FirstTick - 1 \in FirstTick - 1 .. Horizon
    BY SpokeConstants, Constants DEF HubSilenceCap, Larger
  <2> HIDE DEF HubSilenceCap
  <2> QED BY <1>2, <2>1 DEF SpokeInit, MachinesTyped, InGame
<1>4. LinksInvariant
  <2>1. ZombiesRest
    BY <1>2, SpokeConstants DEF Init, SpokeInit, ZombiesRest, InGame
  <2>2. AcksAreTrue
    BY <1>2, EmptySequence, Constants DEF Init, SpokeInit, AcksAreTrue, InGame
  <2>3. MakesUpTheRest
    BY <1>2, Constants DEF Init, SpokeInit, MakesUpTheRest
  <2>4. ReceivesItsOwn
    BY <1>2, Constants DEF SpokeInit, ReceivesItsOwn
  <2> QED BY <1>2, <1>3, <2>1, <2>2, <2>3, <2>4 DEF LinksInvariant, NobodyLagsAlone
<1>5. DeathsInvariant
  BY <1>2, EmptySequence DEF DeathsInvariant, DeathsKnown, FramesFit
<1> QED BY <1>1, <1>4, <1>5 DEF SpokesInvariant

\* What the two ends of every link owe each other, and what every frame on its way says, holds
\* throughout the game: whatever is lost, delayed, reordered or repeated, a machine that reads a
\* frame expects in it exactly the flags the hub has put there.
THEOREM SpokesSafe == ASSUME ~Standalone PROVE GameSpec => []SpokesInvariant
<1>1. GameInit => SpokesInvariant
  BY SpokesBegin
<1>2. SpokesInvariant /\ [GameNext]_gameVars => SpokesInvariant'
  BY SpokesStep
<1> QED BY <1>1, <1>2, PTL DEF GameSpec

\* A spoke keeps the flags the hub lacks (sOutgoingFlags, lines 421-427 of the spoke), and the
\* hub never believes a spoke to have received more than it has
\* (player_acknowledged_up_to_tick, lines 943-997 of the hub), for any number of players.
THEOREM LinksKeepPromises == ASSUME ~Standalone PROVE GameSpec => []LinksKeepTheirPromises
<1>1. SpokesInvariant => LinksKeepTheirPromises
  BY DEF SpokesInvariant, GameInvariant, HubInvariant, TypeOK, SpokesSound, LinksInvariant, AcksAreTrue,
         LinksKeepTheirPromises
<1> QED BY <1>1, SpokesSafe, PTL

\* A machine that has taken the tick in which a player died has made him net dead in its topology
\* (lines 480-500 and 566-575 of the spoke), as long as there is somebody else in the game.
THEOREM DeathsAreKnown == ASSUME ~Standalone PROVE GameSpec => []DeathsReachTheTopology
<1>1. ASSUME SpokesInvariant, NEW p \in InGame, NEW q \in InGame, connected \ {p} # {},
             q \notin connected, smallestUnreceivedTick[p] > Larger(netDeadTick[q], StartingTick)
      PROVE  q \in reallyNetDead[p]
  <2>1. smallestUnreceivedTick[p] \in Int /\ netDeadTick[q] \in Int /\ StartingTick \in Int
    <3>1. p \in Players /\ q \in Players
      BY DEF InGame
    <3>2. \A n \in FirstTick - 1 .. Horizon : n \in Int
      OBVIOUS
    <3>3. smallestUnreceivedTick[p] \in FirstTick .. Horizon /\ netDeadTick[q] \in FirstTick - 1 .. Horizon
      BY <1>1, <3>1 DEF SpokesInvariant, GameInvariant, HubInvariant, TypeOK, SpokesSound
    <3> QED BY <3>2, <3>3, Constants
  <2>2. netDeadTick[q] < smallestUnreceivedTick[p]
    BY <1>1, <2>1 DEF Larger
  <2>3. DeathsKnown
    BY <1>1 DEF SpokesInvariant, DeathsInvariant
  <2>4. q # p
    BY <1>1, <2>1, <2>2, <2>3 DEF DeathsKnown
  <2> QED BY <1>1, <2>2, <2>3, <2>4 DEF DeathsKnown
<1>2. SpokesInvariant => DeathsReachTheTopology
  BY <1>1 DEF DeathsReachTheTopology, KnownNetDead
<1> QED BY <1>2, SpokesSafe, PTL

\* A hub that is shut down gracefully has seen every spoke still in the game receive the game to
\* its end (hub_cleanup and hub_check_for_completion, lines 600-650 of the hub).
THEOREM EverybodyHasFinished == ASSUME ~Standalone PROVE GameSpec => []EverybodyFinishes
<1>1. ASSUME SpokesInvariant, StopsWhenAllHaveFinished PROVE EverybodyFinishes
  <2>1. ASSUME NEW p \in connected, cleanup = "done", smallestPostGameTick <= Horizon
        PROVE  smallestUnreceivedTick[p] >= smallestPostGameTick
    <3>1. smallestUnacknowledgedTick[p] >= smallestPostGameTick
      BY <1>1, <2>1 DEF StopsWhenAllHaveFinished
    <3>2. smallestUnacknowledgedTick[p] <= smallestUnreceivedTick[p]
      BY <1>1 DEF SpokesInvariant, LinksInvariant, AcksAreTrue
    <3>3. /\ p \in Players /\ smallestUnacknowledgedTick \in [Players -> FirstTick .. Horizon]
          /\ smallestPostGameTick \in FirstTick .. Horizon + 1
          /\ smallestUnreceivedTick \in [Players -> FirstTick .. Horizon]
      BY <1>1 DEF SpokesInvariant, GameInvariant, HubInvariant, TypeOK, SpokesSound
    <3>4. /\ smallestUnacknowledgedTick[p] \in Int /\ smallestPostGameTick \in Int
          /\ smallestUnreceivedTick[p] \in Int
      BY <3>3, Constants
    <3> QED BY <3>1, <3>2, <3>4
  <2> QED BY <2>1 DEF EverybodyFinishes
<1>2. GameSpec => Spec
  BY GameIsAmongSpokes DEF HubIsAmongSpokes, Spec
<1> QED BY <1>1, <1>2, SpokesSafe, HubStopsLast, PTL

-----------------------------------------------------------------------------
(* In step: a machine reads its frames where its queues stand.               *)

\* The first tick of the game that p has not received.
FirstDue(p) == Larger(smallestUnreceivedTick[p], StartingTick)

\* p has received the deaths of all others.
Alone(p) ==
  \A q \in InGame \ {p} : q \notin stillConnected[p] /\ netDeadTick[q] <= smallestUnreceivedTick[p]

\* The outgoing and the unconfirmed flags of p end at the same tick, and what is forgotten of the
\* latter is confirmed.
QueuesAgree(p) ==
  /\ unconfirmedWriteTick[p] = Larger(outgoingWriteTick[p], StartingTick)
  /\ StartingTick <= unconfirmedReadTick[p]
  /\ unconfirmedReadTick[p] <= smallestUnconfirmedTick[p]
  /\ unconfirmedReadTick[p] <= unconfirmedWriteTick[p]
  /\ p \in stillConnected[p] /\ stillConnected[p] \subseteq InGame

\* In touch with the hub, p's action queues end where the next tick is due; alone, its own may be
\* ahead, by flags that p has made.
ExpectsItsOwn(p) ==
  /\ GameWriteTick(p, p) = smallestUnconfirmedTick[p]
  /\ FirstDue(p) <= smallestUnconfirmedTick[p]
  /\ smallestUnconfirmedTick[p] <= Larger(FirstDue(p), unconfirmedWriteTick[p])
  /\ \A q \in InGame \ {p} : GameWriteTick(p, q) = FirstDue(p)
  /\ smallestUnconfirmedTick[p] = FirstDue(p) \/ Alone(p)

\* Only the assert on line 589 ever fails, for a machine that is alone when a large update brings
\* it flags made up for it.
FailsOnlyAlone(p) ==
  \/ spokeFailures[p] = {}
  \/ spokeFailures[p] = {589} /\ Alone(p) /\ BandwidthReduction

StaysInStep(p) ==
  QueuesAgree(p) /\ (spokeConnected[p] => ExpectsItsOwn(p)) /\ FailsOnlyAlone(p)

MachinesInvariant ==
  /\ \A p \in InGame : StaysInStep(p)
  /\ \A z \in Zombies : spokeFailures[z] = {}
  /\ ~BandwidthReduction => \A t \in Ticks : madeUp[t] = {}

-----------------------------------------------------------------------------
(* Lengths of queues.                                                        *)

LEMMA Lengthened ==
  ASSUME NEW s, IsSequence(s), NEW n \in Nat, NEW g, g = [k \in 1 .. n |-> g[k]]
  PROVE  IsSequence(s \o g) /\ Len(s \o g) = Len(s) + n /\ Len(s) \in Nat
<1>1. IsSequence(g) /\ DOMAIN g = 1 .. n
  BY Listed
<1>2. Len(g) \in Nat /\ 1 .. Len(g) = 1 .. n
  BY <1>1, SequenceLength
<1>3. Len(g) = n
  BY <1>2
<1> QED BY <1>1, <1>3, Concatenated, Concatenation, SequenceLength DEF Continues

LEMMA FilledLength ==
  ASSUME NEW s, IsSequence(s), NEW tick \in Int
  PROVE  StartingTick + Len(FilledWithNetDead(s, tick)) = Larger(tick, StartingTick + Len(s))
<1> DEFINE n == Larger(tick - StartingTick - Len(s), 0)
           g == [k \in 1 .. n |-> NetDeadFlags]
<1>1. Len(s) \in Nat /\ StartingTick \in Int
  BY SequenceLength, Constants
<1>2. n \in Nat /\ StartingTick + (Len(s) + n) = Larger(tick, StartingTick + Len(s))
  BY <1>1 DEF Larger
<1>3. g = [k \in 1 .. n |-> g[k]] /\ FilledWithNetDead(s, tick) = s \o g
  BY DEF FilledWithNetDead
<1> HIDE DEF n, g
<1> QED BY <1>2, <1>3, Lengthened

LEMMA UnconfirmedLength ==
  ASSUME SpokesSound, NEW p \in Players, NEW s, IsSequence(s)
  PROVE  Len(s \o Unconfirmed(p)) = Len(s) + Larger(unconfirmedWriteTick[p] - smallestUnconfirmedTick[p], 0)
<1> DEFINE n == Larger(unconfirmedWriteTick[p] - smallestUnconfirmedTick[p], 0)
           g == Unconfirmed(p)
<1>1. n \in Nat
  BY SpokeNumbers DEF Larger
<1>2. g = [k \in 1 .. n |-> g[k]]
  BY DEF Unconfirmed
<1> HIDE DEF n, g
<1> QED BY <1>1, <1>2, Lengthened DEF n, g


\* Numbers of a machine.
LEMMA StepNumbers ==
  ASSUME GameInvariant, NEW p \in Players
  PROVE  /\ smallestUnreceivedTick[p] \in Int /\ smallestUnconfirmedTick[p] \in Int
         /\ unconfirmedReadTick[p] \in Int /\ unconfirmedWriteTick[p] \in Int
         /\ outgoingWriteTick[p] \in Int /\ StartingTick \in Int
         /\ FirstDue(p) \in Int /\ smallestUnreceivedTick[p] <= FirstDue(p) /\ StartingTick <= FirstDue(p)
         /\ FirstDue(p) = smallestUnreceivedTick[p] \/ FirstDue(p) = StartingTick
         /\ \A q \in Players : netDeadTick[q] \in Int /\ IsSequence(gameFlags[p][q])
         /\ \A q \in Players : Len(gameFlags[p][q]) \in Nat
<1>1. /\ smallestUnreceivedTick[p] \in Int /\ smallestUnconfirmedTick[p] \in Int
      /\ unconfirmedReadTick[p] \in Int /\ unconfirmedWriteTick[p] \in Int
      /\ outgoingWriteTick[p] \in Int /\ StartingTick \in Int
  BY SpokeNumbers, Constants DEF GameInvariant, SpokesSound
<1>2. \A q \in Players : netDeadTick[q] \in Int
  BY Constants DEF GameInvariant, HubInvariant, TypeOK
<1>3. \A q \in Players : IsSequence(gameFlags[p][q]) /\ Len(gameFlags[p][q]) \in Nat
  BY SpokeNumbers DEF GameInvariant
<1> QED BY <1>1, <1>2, <1>3 DEF FirstDue, Larger

-----------------------------------------------------------------------------
(* The asserts of the loop over the ticks of a packet.                       *)

\* A frame holds the flags of those p expects flags of (line 577).
LEMMA ReadsWhatIsThere ==
  ASSUME GameInvariant, LockstepInvariant, NEW p \in Players, NEW f,
         FrameToSpokeSound(p, f), FrameDecided(p, f), FrameFits(p, f), NEW t \in DOMAIN f.flags
  PROVE  ReadsFlagsOf(p, f, t) = DOMAIN f.flags[t]
<1>1. /\ DOMAIN f.flags[t] = {q \in InGame : (q \in connected \/ t < netDeadTick[q]) /\ (q = p => f.reflects)}
      /\ \A q \in InGame : q \notin connected /\ netDeadTick[q] <= t => q \notin StillConnected(p, f)
  BY DEF FrameFits
<1>2. \A q \in InGame : q \notin StillConnected(p, f) => q \notin connected /\ DeadTicks(p, f)[q] = netDeadTick[q]
  BY DeathsTold DEF GameInvariant, LockstepInvariant, SpokesDecided
<1>3. t \in Int /\ \A q \in InGame : netDeadTick[q] \in Int
  BY StepNumbers, Constants DEF FrameToSpokeSound, InGame
<1>4. \A q \in InGame : Gone(p, f, q, t) <=> ~(q \in connected \/ t < netDeadTick[q])
  BY <1>1, <1>2, <1>3 DEF Gone
<1> QED BY <1>1, <1>4 DEF ReadsFlagsOf, InGame

\* Flags of others, not reflected, are sent to p only while it is in company.
LEMMA OthersFlags ==
  ASSUME GameInvariant, NEW p \in Players, NEW f, FrameFits(p, f), ~f.reflects,
         NEW t \in DOMAIN f.flags, t \in Int, smallestUnreceivedTick[p] <= t
  PROVE  ~Alone(p)
<1>1. PICK q \in InGame : (q \in connected \/ t < netDeadTick[q]) /\ q # p
  BY DEF FrameFits
<1>2. netDeadTick[q] \in Int /\ smallestUnreceivedTick[p] \in Int /\ q \in Players
  BY <1>1, StepNumbers DEF InGame
<1>3. connected \subseteq stillConnected[p]
  BY DEF GameInvariant, SpokesSound
<1> QED BY <1>1, <1>2, <1>3 DEF Alone

\* What p takes of the frame, in numbers; its own flags stand where the frame begins, unless p is
\* alone and its own flags are reflected.
LEMMA StandsWhereItBegins ==
  ASSUME GameInvariant, MachinesInvariant, NEW p \in Players, NEW f,
         FrameFits(p, f), FrameToSpokeSound(p, f), TakesView(p, f), spokeConnected[p],
         NEW start \in Int, NEW stop \in Int, TakesFlags(p, f, start, stop), stop > FirstDue(p)
  PROVE  /\ stop - 1 \in DOMAIN f.flags
         /\ ~f.reflects => /\ smallestUnconfirmedTick[p] = FirstDue(p)
                           /\ stop <= unconfirmedWriteTick[p]
         /\ f.reflects => BandwidthReduction
<1>1. /\ smallestUnreceivedTick[p] \in Int /\ FirstDue(p) \in Int /\ smallestUnreceivedTick[p] <= FirstDue(p)
      /\ StartingTick <= FirstDue(p) /\ StartingTick \in Int /\ outgoingWriteTick[p] \in Int
  BY StepNumbers
<1>2. start <= smallestUnreceivedTick[p] /\ start .. stop - 1 \subseteq DOMAIN f.flags
  BY DEF TakesFlags
<1>3. stop - 1 \in DOMAIN f.flags
  BY <1>1, <1>2
<1>4. p \in InGame /\ stop - 1 < f.ack
  BY <1>3 DEF FrameFits
<1>5. ASSUME ~f.reflects PROVE smallestUnconfirmedTick[p] = FirstDue(p) /\ stop <= unconfirmedWriteTick[p]
  <2>1. ~Alone(p)
    BY <1>1, <1>3, <1>5, OthersFlags
  <2>2. f.ack <= outgoingWriteTick[p]
    BY <1>5 DEF TakesView
  <2>3. f.ack \in Int
    BY AckedBounds
  <2>4. smallestUnconfirmedTick[p] = FirstDue(p) /\ unconfirmedWriteTick[p] = Larger(outgoingWriteTick[p], StartingTick)
    BY <1>4, <2>1 DEF MachinesInvariant, StaysInStep, ExpectsItsOwn, QueuesAgree
  <2> QED BY <1>1, <1>4, <2>2, <2>3, <2>4 DEF Larger
<1>6. f.reflects => BandwidthReduction
  BY DEF FrameFits, MachinesInvariant
<1> QED BY <1>3, <1>5, <1>6

LEMMA AssertsHold ==
  ASSUME GameInvariant, LockstepInvariant, MachinesInvariant, NEW p \in Players, NEW f,
         FrameFits(p, f), FrameToSpokeSound(p, f), FrameDecided(p, f), TakesView(p, f), spokeConnected[p],
         NEW start \in Int, NEW stop \in Int, TakesFlags(p, f, start, stop)
  PROVE  \/ /\ FailedAsserts(p, f, start, stop) = {}
            /\ stop > FirstDue(p) => smallestUnconfirmedTick[p] = FirstDue(p)
         \/ FailedAsserts(p, f, start, stop) = {589} /\ Alone(p) /\ BandwidthReduction
<1> DEFINE taken == Larger(stop - FirstDue(p), 0)
           own == ~f.reflects /\ taken > 0
           fails == FailedAsserts(p, f, start, stop)
           F534 == own /\ GameWriteTick(p, p) # smallestUnconfirmedTick[p]
           F535 == own /\ smallestUnconfirmedTick[p] < unconfirmedReadTick[p]
           F536 == own /\ smallestUnconfirmedTick[p] + taken > unconfirmedWriteTick[p]
           F589 == taken > 0 /\ \E q \in ReadsFlagsOf(p, f, stop - 1) \cap StillConnected(p, f) :
                                  GameWriteTick(p, q) # FirstDue(p)
<1>1. fails = {l \in {534, 535, 536, 589} : (l = 534 /\ F534) \/ (l = 535 /\ F535) \/ (l = 536 /\ F536) \/ (l = 589 /\ F589)}
  <2>1. \A t \in start .. stop - 1 : ReadsFlagsOf(p, f, t) = DOMAIN f.flags[t]
    BY ReadsWhatIsThere DEF TakesFlags
  <2> QED BY <2>1 DEF FailedAsserts, FirstDue
<1>2. /\ FirstDue(p) \in Int /\ smallestUnconfirmedTick[p] \in Int
      /\ unconfirmedReadTick[p] \in Int /\ unconfirmedWriteTick[p] \in Int
  BY StepNumbers
<1>3. taken > 0 <=> stop > FirstDue(p)
  BY <1>2 DEF Larger
<1>4. taken > 0 => taken = stop - FirstDue(p)
  BY <1>2 DEF Larger
<1>5. p \in InGame /\ QueuesAgree(p) /\ ExpectsItsOwn(p)
  BY DEF FrameFits, MachinesInvariant, StaysInStep
<1> HIDE DEF taken, F534, F535, F536, F589, fails
<1>6. ~F534 /\ ~F535
  BY <1>2, <1>5 DEF F534, F535, ExpectsItsOwn, QueuesAgree
<1>7. ~F536
  <2>1. ASSUME own PROVE smallestUnconfirmedTick[p] + taken <= unconfirmedWriteTick[p]
    <3>1. smallestUnconfirmedTick[p] = FirstDue(p) /\ stop <= unconfirmedWriteTick[p]
      BY <1>3, <2>1, StandsWhereItBegins
    <3>2. taken = stop - FirstDue(p)
      BY <1>4, <2>1
    <3> QED BY <1>2, <3>1, <3>2
  <2>2. taken \in Int
    BY <1>2, LargerOf DEF taken
  <2> QED BY <1>2, <2>1, <2>2 DEF F536
<1>8. fails = IF F589 THEN {589} ELSE {}
  BY <1>1, <1>6, <1>7
<1>9. ASSUME F589 PROVE Alone(p) /\ BandwidthReduction
  <2>1. PICK q \in ReadsFlagsOf(p, f, stop - 1) \cap StillConnected(p, f) : GameWriteTick(p, q) # FirstDue(p)
    BY <1>9 DEF F589
  <2>2. q \in InGame /\ (q = p => f.reflects)
    BY <2>1 DEF ReadsFlagsOf, InGame
  <2>3. q = p
    BY <1>5, <2>1, <2>2 DEF ExpectsItsOwn
  <2>4. BandwidthReduction
    BY <1>3, <1>9, <2>2, <2>3, StandsWhereItBegins DEF F589
  <2> QED BY <1>5, <2>1, <2>3, <2>4 DEF ExpectsItsOwn
<1>10. ASSUME ~F589, stop > FirstDue(p) PROVE smallestUnconfirmedTick[p] = FirstDue(p)
  <2>1. CASE ~f.reflects
    BY <1>10, <2>1, StandsWhereItBegins
  <2>2. CASE f.reflects
    <3>1. p \in StillConnected(p, f)
      BY <1>5 DEF QueuesAgree, StillConnected, FrameFits
    <3>2. p \in ReadsFlagsOf(p, f, stop - 1)
      BY <1>5, <2>2, <3>1 DEF ReadsFlagsOf, Gone, InGame
    <3>3. GameWriteTick(p, p) = FirstDue(p)
      BY <1>3, <1>10, <3>1, <3>2 DEF F589
    <3> QED BY <1>5, <3>3 DEF ExpectsItsOwn
  <2> QED BY <2>1, <2>2
<1> QED BY <1>8, <1>9, <1>10 DEF fails


-----------------------------------------------------------------------------
(* Every step keeps the machines in step.                                    *)

\* What r's part of the invariant looks at, apart from the hub.
SameMachine(r) ==
  /\ smallestUnreceivedTick'[r] = smallestUnreceivedTick[r]
  /\ smallestUnconfirmedTick'[r] = smallestUnconfirmedTick[r]
  /\ unconfirmedReadTick'[r] = unconfirmedReadTick[r] /\ unconfirmedWriteTick'[r] = unconfirmedWriteTick[r]
  /\ outgoingWriteTick'[r] = outgoingWriteTick[r]
  /\ gameFlags'[r] = gameFlags[r]
  /\ spokeConnected'[r] = spokeConnected[r]
  /\ spokeFailures'[r] = spokeFailures[r]

\* The dates of the dead stand.
DatesStand == \A q \in InGame : q \notin connected => netDeadTick'[q] = netDeadTick[q]

LEMMA SameStaysInStep ==
  ASSUME GameInvariant, DatesStand, NEW r \in InGame, StaysInStep(r), SameMachine(r),
         stillConnected'[r] \subseteq stillConnected[r], r \in stillConnected'[r]
  PROVE  StaysInStep(r)'
<1>1. connected \subseteq stillConnected[r]
  BY DEF GameInvariant, SpokesSound, InGame
<1>2. Alone(r) => Alone(r)'
  BY <1>1 DEF Alone, SameMachine, DatesStand, InGame
<1>3. FirstDue(r)' = FirstDue(r) /\ \A q \in InGame : GameWriteTick(r, q)' = GameWriteTick(r, q)
  BY DEF FirstDue, SameMachine, GameWriteTick
<1>4. QueuesAgree(r)'
  BY DEF StaysInStep, QueuesAgree, SameMachine, InGame
<1>5. ExpectsItsOwn(r) => ExpectsItsOwn(r)'
  BY <1>2, <1>3 DEF ExpectsItsOwn, SameMachine, InGame
<1>6. FailsOnlyAlone(r)'
  BY <1>2 DEF StaysInStep, FailsOnlyAlone, SameMachine
<1> QED BY <1>4, <1>5, <1>6 DEF StaysInStep, SameMachine

LEMMA HubKeepsStep ==
  ASSUME GameInvariant, LockstepInvariant, MachinesInvariant, HubAction
  PROVE  MachinesInvariant'
<1>1. /\ UNCHANGED <<smallestUnreceivedTick, smallestUnconfirmedTick, unconfirmedReadTick, unconfirmedWriteTick>>
      /\ UNCHANGED <<outgoingWriteTick, gameFlags, spokeConnected, spokeFailures, stillConnected>>
  BY DEF HubAction, spokeVars, spokeQueueVars, viewVars, receivedVars
<1>2. DatesStand
  BY DEF HubAction, HubMoves, DatesStand, InGame
<1>3. ASSUME NEW r \in InGame PROVE StaysInStep(r)'
  <2>1. SameMachine(r)
    BY <1>1 DEF SameMachine
  <2>2. StaysInStep(r) /\ r \in stillConnected[r]
    BY DEF MachinesInvariant, StaysInStep, QueuesAgree
  <2> QED BY <1>1, <1>2, <2>1, <2>2, SameStaysInStep
<1>4. ASSUME ~BandwidthReduction, NEW t \in Ticks PROVE madeUp'[t] = {}
  <2>1. playerReflectedFlags[t] \subseteq madeUp[t] /\ madeUp[t] = {}
    BY <1>4 DEF LockstepInvariant, HubRemembers, MachinesInvariant
  <2>2. playerReflectedFlags'[t] \subseteq playerReflectedFlags[t]
    BY <1>4 DEF HubAction, HubTakes
  <2> QED BY <2>1, <2>2 DEF HubAction, RemembersMadeUp
<1> QED BY <1>1, <1>3, <1>4 DEF MachinesInvariant, InGame

\* Alone, p goes on by itself: what was unconfirmed is what its queue holds now, and the others'
\* are filled as far as its own flags are acknowledged.
LEMMA OwnTakenInStep ==
  ASSUME GameInvariant, LockstepInvariant, LinksInvariant, MachinesInvariant,
         NEW p \in Players, NEW f, FrameFits(p, f), FrameToSpokeSound(p, f), FrameDecided(p, f),
         SpokeReceives(p, f), UNCHANGED hubVars,
         spokeConnected[p], TakesView(p, f), TakesItsOwn(p, f),
         UNCHANGED <<spokeConnected, outgoingWriteTick, unconfirmedReadTick, unconfirmedWriteTick>>
  PROVE  StaysInStep(p)'
<1> DEFINE su == smallestUnreceivedTick[p]
           sU == smallestUnconfirmedTick[p]
           uW == unconfirmedWriteTick[p]
           acked == Acked(p, f)
<1>1. p \in InGame /\ QueuesAgree(p) /\ ExpectsItsOwn(p) /\ FailsOnlyAlone(p)
  BY DEF FrameFits, MachinesInvariant, StaysInStep
<1>2. /\ su \in Int /\ sU \in Int /\ uW \in Int /\ outgoingWriteTick[p] \in Int /\ StartingTick \in Int
      /\ FirstDue(p) \in Int /\ su <= FirstDue(p) /\ StartingTick <= FirstDue(p)
      /\ unconfirmedReadTick[p] \in Int
      /\ FirstDue(p) = su \/ FirstDue(p) = StartingTick
      /\ \A q \in Players : netDeadTick[q] \in Int /\ IsSequence(gameFlags[p][q])
      /\ \A q \in Players : Len(gameFlags[p][q]) \in Nat
  BY StepNumbers
<1>3. acked \in Int /\ acked <= outgoingWriteTick[p]
  BY AckedBounds
<1>4. /\ smallestUnreceivedTick' = [smallestUnreceivedTick EXCEPT ![p] = acked]
      /\ smallestUnconfirmedTick' = [smallestUnconfirmedTick EXCEPT ![p] = Larger(@, uW)]
      /\ gameFlags' = [gameFlags EXCEPT ![p] =
            [q \in Players |-> IF q = p THEN @[q] \o Unconfirmed(p)
                               ELSE IF q \in Zombies THEN @[q] ELSE FilledWithNetDead(@[q], acked)]]
      /\ UNCHANGED spokeFailures
  BY DEF TakesItsOwn, ReceiveNoFlags
<1>5. /\ smallestUnreceivedTick'[p] = acked /\ smallestUnconfirmedTick'[p] = Larger(sU, uW)
      /\ gameFlags'[p][p] = gameFlags[p][p] \o Unconfirmed(p)
      /\ \A q \in InGame \ {p} : gameFlags'[p][q] = FilledWithNetDead(gameFlags[p][q], acked)
  BY <1>4 DEF GameInvariant, SpokesSound, InGame
<1>6. su <= acked
  BY <1>5, ReceivedGrows
<1>7. StillConnected(p, f) \subseteq stillConnected[p] /\ p \in StillConnected(p, f)
      /\ stillConnected'[p] = StillConnected(p, f)
  BY <1>1 DEF StillConnected, FrameFits, QueuesAgree, TakesView, GameInvariant, SpokesSound
<1>8. Alone(p)'
  <2>1. ASSUME NEW q \in InGame \ {p} PROVE q \notin stillConnected'[p] /\ netDeadTick'[q] <= smallestUnreceivedTick'[p]
    <3>1. q \notin StillConnected(p, f) /\ DeadTicks(p, f)[q] <= acked
      BY DEF TakesItsOwn, WeAreAlone, InGame
    <3>2. DeadTicks(p, f)[q] = netDeadTick[q] /\ netDeadTick' = netDeadTick
      BY <3>1, DeathsTold DEF GameInvariant, LockstepInvariant, SpokesDecided, hubVars, playerVars
    <3> QED BY <1>5, <1>7, <3>1, <3>2
  <2> QED BY <2>1 DEF Alone, InGame
<1>9. FirstDue(p)' = Larger(acked, StartingTick)
  BY <1>5 DEF FirstDue
<1>10. GameWriteTick(p, p)' = GameWriteTick(p, p) + Larger(uW - sU, 0)
  <2>1. Len(gameFlags[p][p] \o Unconfirmed(p)) = Len(gameFlags[p][p]) + Larger(uW - sU, 0)
    BY <1>2, UnconfirmedLength DEF GameInvariant
  <2>2. Larger(uW - sU, 0) \in Int /\ Len(gameFlags[p][p]) \in Int
    BY <1>2 DEF Larger
  <2> HIDE DEF su, sU, uW
  <2> QED BY <1>2, <1>5, <2>1, <2>2 DEF GameWriteTick
<1>11. \A q \in InGame \ {p} : GameWriteTick(p, q)' = Larger(acked, GameWriteTick(p, q))
  BY <1>2, <1>3, <1>5, FilledLength DEF GameWriteTick, InGame
<1>12. /\ uW = Larger(outgoingWriteTick[p], StartingTick) /\ unconfirmedReadTick[p] <= sU
       /\ GameWriteTick(p, p) = sU /\ sU <= Larger(FirstDue(p), uW)
       /\ \A q \in InGame \ {p} : GameWriteTick(p, q) = FirstDue(p)
  BY <1>1 DEF QueuesAgree, ExpectsItsOwn
<1> HIDE DEF su, sU, uW, acked
<1>13. /\ GameWriteTick(p, p)' = Larger(sU, uW)
       /\ FirstDue(p)' <= Larger(sU, uW) /\ Larger(sU, uW) <= Larger(FirstDue(p)', uW)
       /\ \A q \in InGame \ {p} : GameWriteTick(p, q)' = FirstDue(p)'
       /\ unconfirmedReadTick[p] <= Larger(sU, uW)
  <2>1. GameWriteTick(p, p)' = Larger(sU, uW)
    BY <1>2, <1>10, <1>12 DEF Larger
  <2>2. FirstDue(p)' = Larger(acked, FirstDue(p)) /\ FirstDue(p)' \in Int
    BY <1>2, <1>3, <1>6, <1>9 DEF Larger
  <2>3. FirstDue(p)' <= uW
    BY <1>2, <1>3, <1>9, <1>12 DEF Larger
  <2>4. sU <= Larger(FirstDue(p)', uW)
    BY <1>2, <1>3, <1>12, <2>2, <2>3 DEF Larger
  <2>5. \A q \in InGame \ {p} : GameWriteTick(p, q)' = FirstDue(p)'
    BY <1>11, <1>12, <2>2
  <2>6. uW \in Int /\ sU \in Int /\ unconfirmedReadTick[p] \in Int
    BY <1>2
  <2> QED BY <1>12, <2>1, <2>2, <2>3, <2>4, <2>5, <2>6 DEF Larger
<1>14. ExpectsItsOwn(p)'
  BY <1>5, <1>8, <1>13 DEF ExpectsItsOwn, uW, InGame
<1>15. QueuesAgree(p)'
  BY <1>1, <1>5, <1>7, <1>13 DEF QueuesAgree, InGame
<1>16. FailsOnlyAlone(p)'
  BY <1>1, <1>4, <1>8 DEF FailsOnlyAlone
<1> QED BY <1>14, <1>15, <1>16 DEF StaysInStep


\* The flags p takes continue all its queues alike.
LEMMA FlagsTakenInStep ==
  ASSUME GameInvariant, LockstepInvariant, MachinesInvariant, UNCHANGED hubVars,
         NEW p \in Players, NEW f, FrameFits(p, f), FrameToSpokeSound(p, f), FrameDecided(p, f),
         spokeConnected[p], TakesView(p, f),
         NEW start \in Int, NEW stop \in Int, TakesFlags(p, f, start, stop),
         FailedAsserts(p, f, start, stop) = {},
         stop > FirstDue(p) => smallestUnconfirmedTick[p] = FirstDue(p),
         UNCHANGED <<spokeConnected, outgoingWriteTick, unconfirmedReadTick, unconfirmedWriteTick>>
  PROVE  StaysInStep(p)'
<1> DEFINE su == smallestUnreceivedTick[p]
           sU == smallestUnconfirmedTick[p]
           uW == unconfirmedWriteTick[p]
           first == FirstDue(p)
           taken == Larger(stop - first, 0)
           more(q) == [k \in 1 .. taken |-> TakenFlags(p, f, q, first + k - 1)]
<1>1. p \in InGame /\ QueuesAgree(p) /\ ExpectsItsOwn(p) /\ FailsOnlyAlone(p)
  BY DEF FrameFits, MachinesInvariant, StaysInStep
<1>2. /\ su \in Int /\ sU \in Int /\ uW \in Int /\ StartingTick \in Int
      /\ first \in Int /\ su <= first /\ StartingTick <= first
      /\ unconfirmedReadTick[p] \in Int
      /\ first = su \/ first = StartingTick
      /\ \A q \in Players : netDeadTick[q] \in Int /\ IsSequence(gameFlags[p][q])
      /\ \A q \in Players : Len(gameFlags[p][q]) \in Nat
  BY StepNumbers
<1>3. /\ smallestUnreceivedTick' = [smallestUnreceivedTick EXCEPT ![p] = Larger(@, stop)]
      /\ smallestUnconfirmedTick' = [smallestUnconfirmedTick EXCEPT ![p] = @ + taken]
      /\ gameFlags' = [gameFlags EXCEPT ![p] =
            [q \in Players |-> IF q \in Zombies THEN @[q] ELSE @[q] \o more(q)]]
      /\ UNCHANGED spokeFailures
  BY DEF TakesFlags, ReceiveFlags, FirstDue
<1>4. /\ smallestUnreceivedTick'[p] = Larger(su, stop) /\ smallestUnconfirmedTick'[p] = sU + taken
      /\ \A q \in InGame : gameFlags'[p][q] = gameFlags[p][q] \o more(q)
  <2> HIDE DEF taken, more
  <2> QED BY <1>3 DEF GameInvariant, SpokesSound, InGame
<1>5. taken \in Nat /\ (taken > 0 <=> stop > first) /\ (taken = stop - first \/ (taken = 0 /\ stop <= first))
  BY <1>2 DEF Larger
<1>6. \A q \in InGame : GameWriteTick(p, q)' = GameWriteTick(p, q) + taken
  <2>1. ASSUME NEW q \in InGame PROVE Len(gameFlags[p][q] \o more(q)) = Len(gameFlags[p][q]) + taken
    <3> DEFINE g == more(q)
    <3>1. g = [k \in 1 .. taken |-> g[k]]
      OBVIOUS
    <3> HIDE DEF g, taken
    <3> QED BY <1>2, <1>5, <3>1, Lengthened DEF InGame, g
  <2> HIDE DEF taken, more, first
  <2>2. ASSUME NEW q \in InGame PROVE GameWriteTick(p, q)' = GameWriteTick(p, q) + taken
    <3>1. Len(gameFlags'[p][q]) = Len(gameFlags[p][q]) + taken
      BY <1>4, <2>1
    <3>2. Len(gameFlags[p][q]) \in Nat /\ StartingTick \in Int
      BY <1>2 DEF InGame
    <3>3. StartingTick + (Len(gameFlags[p][q]) + taken) = StartingTick + Len(gameFlags[p][q]) + taken
      BY <1>5, <3>2
    <3> QED BY <3>1, <3>3 DEF GameWriteTick
  <2> QED BY <2>2
<1>7. StillConnected(p, f) \subseteq stillConnected[p] /\ p \in StillConnected(p, f)
      /\ stillConnected'[p] = StillConnected(p, f) /\ connected \subseteq stillConnected[p]
  BY <1>1 DEF StillConnected, FrameFits, QueuesAgree, TakesView, GameInvariant, SpokesSound
<1> HIDE DEF taken, more, first, su, sU, uW
<1>8. FirstDue(p)' = first + taken /\ su <= Larger(su, stop)
  <2>1. FirstDue(p)' = Larger(Larger(su, stop), StartingTick)
    BY <1>4 DEF FirstDue
  <2>2. first = Larger(su, StartingTick)
    BY DEF FirstDue, first, su
  <2> QED BY <1>2, <1>5, <2>1, <2>2 DEF Larger
<1>9. Alone(p) => Alone(p)'
  <2>1. ASSUME NEW q \in InGame \ {p}, Alone(p)
        PROVE  q \notin stillConnected'[p] /\ netDeadTick'[q] <= smallestUnreceivedTick'[p]
    <3>1. q \notin stillConnected[p] /\ netDeadTick[q] <= su /\ netDeadTick' = netDeadTick
      BY <2>1 DEF Alone, su, hubVars, playerVars
    <3>2. netDeadTick[q] \in Int /\ Larger(su, stop) \in Int
      BY <1>2 DEF InGame, Larger
    <3> QED BY <1>2, <1>4, <1>7, <1>8, <3>1, <3>2
  <2> QED BY <2>1 DEF Alone, InGame
<1>10. /\ GameWriteTick(p, p) = sU /\ first <= sU /\ sU <= Larger(first, uW)
       /\ \A q \in InGame \ {p} : GameWriteTick(p, q) = first
       /\ sU = first \/ Alone(p)
       /\ unconfirmedReadTick[p] <= sU /\ (taken > 0 => sU = first)
  BY <1>1, <1>5 DEF QueuesAgree, ExpectsItsOwn, sU, uW, first
<1>11. ExpectsItsOwn(p)'
  <2>1. /\ GameWriteTick(p, p)' = sU + taken /\ FirstDue(p)' <= sU + taken
        /\ sU + taken <= Larger(FirstDue(p)', uW)
        /\ \A q \in InGame \ {p} : GameWriteTick(p, q)' = FirstDue(p)'
    <3>1. GameWriteTick(p, p)' = sU + taken
      BY <1>1, <1>6, <1>10
    <3>4. FirstDue(p)' <= sU + taken
      BY <1>2, <1>5, <1>8, <1>10
    <3>2. sU + taken <= Larger(first + taken, uW)
      BY <1>2, <1>5, <1>10 DEF Larger
    <3>3. \A q \in InGame \ {p} : GameWriteTick(p, q)' = first + taken
      BY <1>6, <1>10
    <3> QED BY <1>8, <3>1, <3>2, <3>3, <3>4
  <2>2. sU + taken = FirstDue(p)' \/ Alone(p)'
    BY <1>2, <1>5, <1>8, <1>9, <1>10
  <2> QED BY <1>4, <2>1, <2>2 DEF ExpectsItsOwn, uW, InGame
<1>12. QueuesAgree(p)'
  <2>1. unconfirmedReadTick[p] <= sU + taken
    BY <1>2, <1>5, <1>10
  <2> QED BY <1>1, <1>4, <1>7, <2>1 DEF QueuesAgree, InGame
<1>13. FailsOnlyAlone(p)'
  BY <1>1, <1>3, <1>9 DEF FailsOnlyAlone
<1> QED BY <1>11, <1>12, <1>13 DEF StaysInStep


\* What p's actions leave of the other machines.
LEMMA OthersUntouched ==
  ASSUME GameInvariant, LockstepInvariant, MachinesInvariant, MachinesTyped, NEW p \in Players, NEW r \in Players, r # p,
         OwnStep(p) \/ \E f : FrameToSpokeSound(p, f) /\ FrameDecided(p, f) /\ SpokeReceives(p, f)
  PROVE  SameMachine(r) /\ stillConnected'[r] = stillConnected[r]
<1>1. /\ spokeFailures = [x \in Players |-> spokeFailures[x]]
      /\ spokeConnected = [x \in Players |-> spokeConnected[x]]
      /\ stillConnected = [x \in Players |-> stillConnected[x]]
  BY DEF MachinesTyped
<1>2. /\ smallestUnreceivedTick = [x \in Players |-> smallestUnreceivedTick[x]]
      /\ smallestUnconfirmedTick = [x \in Players |-> smallestUnconfirmedTick[x]]
      /\ unconfirmedReadTick = [x \in Players |-> unconfirmedReadTick[x]]
      /\ unconfirmedWriteTick = [x \in Players |-> unconfirmedWriteTick[x]]
      /\ outgoingWriteTick = [x \in Players |-> outgoingWriteTick[x]]
      /\ gameFlags = [x \in Players |-> gameFlags[x]]
  BY DEF GameInvariant, SpokesSound
<1>3. ASSUME NEW f, FrameToSpokeSound(p, f), FrameDecided(p, f), SpokeReceives(p, f)
      PROVE  SameMachine(r) /\ stillConnected'[r] = stillConnected[r]
  <2>1. UNCHANGED <<spokeConnected, outgoingWriteTick, unconfirmedReadTick, unconfirmedWriteTick>>
    BY <1>3 DEF SpokeReceives
  <2>2. /\ smallestUnreceivedTick'[r] = smallestUnreceivedTick[r] /\ gameFlags'[r] = gameFlags[r]
        /\ stillConnected'[r] = stillConnected[r]
    BY <1>3, OthersStay DEF GameInvariant, LockstepInvariant, SpokesDecided
  <2>3. smallestUnconfirmedTick'[r] = smallestUnconfirmedTick[r] /\ spokeFailures'[r] = spokeFailures[r]
    <3>1. CASE TakesNothing(p)
      BY <3>1 DEF TakesNothing
    <3>2. CASE TakesItsOwn(p, f)
      BY <1>2, <3>2 DEF TakesItsOwn, ReceiveNoFlags
    <3>3. ASSUME NEW start, NEW stop, TakesFlags(p, f, start, stop)
          PROVE  smallestUnconfirmedTick'[r] = smallestUnconfirmedTick[r] /\ spokeFailures'[r] = spokeFailures[r]
      <4> DEFINE taken == Larger(stop - Larger(smallestUnreceivedTick[p], StartingTick), 0)
      <4>1. /\ \/ UNCHANGED smallestUnconfirmedTick
               \/ smallestUnconfirmedTick' = [smallestUnconfirmedTick EXCEPT ![p] = @ + taken]
            /\ \/ UNCHANGED spokeFailures
               \/ spokeFailures' = [spokeFailures EXCEPT ![p] = FailedAsserts(p, f, start, stop)]
        BY <3>3 DEF TakesFlags, ReceiveFlags
      <4> HIDE DEF taken
      <4> QED BY <1>1, <1>2, <4>1
    <3> QED BY <1>3, <3>1, <3>2, <3>3, ReceiptKinds
  <2> QED BY <2>1, <2>2, <2>3 DEF SameMachine
<1>4. ASSUME OwnStep(p) PROVE SameMachine(r) /\ stillConnected'[r] = stillConnected[r]
  <2>1. UNCHANGED <<smallestUnreceivedTick, outgoingReadTick, stillConnected, deadTick, spokeFailures>>
    BY <1>4, OwnStepGrows
  <2>2. CASE SpokeTick(p)
    <3>1. UNCHANGED <<spokeConnected, unconfirmedReadTick>>
      BY <2>2 DEF SpokeTick
    <3>2. CASE ConnectedTick(p)
      BY <1>2, <2>1, <3>1, <3>2 DEF ConnectedTick, SameMachine
    <3>3. CASE CutOffTick(p)
      BY <1>2, <2>1, <3>1, <3>3 DEF CutOffTick, SameMachine
    <3> QED BY <2>2, <3>2, <3>3 DEF SpokeTick
  <2>3. CASE SpokeGivesUp(p)
    BY <1>1, <2>1, <2>3 DEF SpokeGivesUp, SameMachine, spokeQueueVars, receivedVars
  <2>4. CASE ForgetConfirmed(p)
    BY <1>2, <2>1, <2>4 DEF ForgetConfirmed, SameMachine, receivedVars
  <2>5. CASE GameAdvances(p) \/ SpokeCleanup(p)
    BY <2>1, <2>5 DEF GameAdvances, SpokeCleanup, SameMachine, receivedVars, spokeQueueVars
  <2> QED BY <1>4, <2>2, <2>3, <2>4, <2>5 DEF OwnStep
<1> QED BY <1>3, <1>4

\* p's own machine, when it reads a frame.
LEMMA ReceiptStaysInStep ==
  ASSUME SpokesInvariant, MachinesInvariant, UNCHANGED hubVars,
         NEW p \in Players, NEW f, FrameFits(p, f), FrameToSpokeSound(p, f), FrameDecided(p, f),
         SpokeReceives(p, f)
  PROVE  StaysInStep(p)'
<1>1. /\ p \in InGame /\ StaysInStep(p) /\ spokeConnected[p] /\ p \in stillConnected[p]
      /\ Running(p)
      /\ UNCHANGED <<spokeConnected, outgoingWriteTick, unconfirmedReadTick, unconfirmedWriteTick>>
  BY ReceiptKinds DEF FrameFits, MachinesInvariant, StaysInStep, QueuesAgree, SpokesInvariant
<1>2. DatesStand
  BY DEF DatesStand, hubVars, playerVars
<1>3. /\ StillConnected(p, f) \subseteq stillConnected[p] /\ p \in StillConnected(p, f)
      /\ stillConnected = [r \in Players |-> stillConnected[r]]
  BY <1>1 DEF StillConnected, FrameFits, SpokesInvariant, GameInvariant, SpokesSound
<1>4. CASE TakesNothing(p) /\ (UNCHANGED stillConnected \/ TakesView(p, f))
  <2>1. SameMachine(p)
    BY <1>1, <1>4 DEF TakesNothing, SameMachine
  <2>2. stillConnected'[p] \subseteq stillConnected[p] /\ p \in stillConnected'[p]
    BY <1>1, <1>3, <1>4 DEF TakesView
  <2> QED BY <1>1, <1>2, <2>1, <2>2, SameStaysInStep DEF SpokesInvariant
<1>5. CASE TakesView(p, f) /\ TakesItsOwn(p, f)
  BY <1>1, <1>5, OwnTakenInStep DEF SpokesInvariant
<1>6. ASSUME TakesView(p, f), NEW start \in Int, NEW stop \in Int, TakesFlags(p, f, start, stop)
      PROVE  StaysInStep(p)'
  <2>1. CASE /\ FailedAsserts(p, f, start, stop) = {}
             /\ stop > FirstDue(p) => smallestUnconfirmedTick[p] = FirstDue(p)
    BY <1>1, <1>6, <2>1, FlagsTakenInStep DEF SpokesInvariant
  <2>2. CASE FailedAsserts(p, f, start, stop) = {589} /\ Alone(p) /\ BandwidthReduction
    <3>1. /\ spokeFailures' = [spokeFailures EXCEPT ![p] = {589}]
          /\ UNCHANGED <<smallestUnreceivedTick, gameFlags, smallestUnconfirmedTick>>
      BY <1>6, <2>2 DEF TakesFlags, ReceiveFlags, receivedVars
    <3>2. /\ spokeFailures'[p] = {589} /\ stillConnected'[p] = StillConnected(p, f)
      BY <1>3, <1>6, <3>1 DEF TakesView, SpokesInvariant, LinksInvariant, MachinesTyped
    <3>3. Alone(p)'
      BY <1>3, <2>2, <3>1, <3>2 DEF Alone, hubVars, playerVars, InGame
    <3>4. FirstDue(p)' = FirstDue(p) /\ \A q \in InGame : GameWriteTick(p, q)' = GameWriteTick(p, q)
      BY <3>1 DEF FirstDue, GameWriteTick
    <3>5. QueuesAgree(p) /\ ExpectsItsOwn(p)
      BY <1>1 DEF StaysInStep
    <3>6. QueuesAgree(p)'
      BY <1>1, <1>3, <3>1, <3>2, <3>5 DEF QueuesAgree, InGame
    <3>7. ExpectsItsOwn(p)'
      BY <1>1, <3>1, <3>3, <3>4, <3>5 DEF ExpectsItsOwn, InGame
    <3>8. FailsOnlyAlone(p)'
      BY <2>2, <3>2, <3>3 DEF FailsOnlyAlone
    <3> QED BY <3>6, <3>7, <3>8 DEF StaysInStep
  <2> QED BY <1>1, <1>6, <2>1, <2>2, AssertsHold DEF SpokesInvariant
<1> QED BY <1>4, <1>5, <1>6, ReceiptKinds DEF SpokesInvariant


\* p's own machine, when it takes nothing: the outgoing and the unconfirmed flags grow together.
LEMMA OwnStepStaysInStep ==
  ASSUME SpokesInvariant, MachinesInvariant, UNCHANGED hubVars, NEW p \in InGame, OwnStep(p)
  PROVE  StaysInStep(p)'
<1>1. /\ p \in Players /\ QueuesAgree(p) /\ FailsOnlyAlone(p)
      /\ spokeConnected[p] => ExpectsItsOwn(p)
  BY DEF MachinesInvariant, StaysInStep, InGame
<1>2. DatesStand
  BY DEF DatesStand, hubVars, playerVars
<1>3. UNCHANGED <<smallestUnreceivedTick, stillConnected, spokeFailures>>
  BY <1>1, OwnStepGrows DEF SpokesInvariant, LinksInvariant
<1>4. /\ smallestUnreceivedTick[p] \in Int /\ smallestUnconfirmedTick[p] \in Int
      /\ unconfirmedReadTick[p] \in Int /\ unconfirmedWriteTick[p] \in Int
      /\ outgoingWriteTick[p] \in Int /\ StartingTick \in Int /\ FirstDue(p) \in Int
  BY <1>1, StepNumbers DEF SpokesInvariant
<1>5. /\ Alone(p)' <=> Alone(p)
      /\ FirstDue(p)' = FirstDue(p)
      /\ gameFlags' = gameFlags => \A q \in Players : GameWriteTick(p, q)' = GameWriteTick(p, q)
  BY <1>3 DEF Alone, FirstDue, GameWriteTick, hubVars, playerVars
<1>6. FailsOnlyAlone(p)'
  BY <1>1, <1>3, <1>5 DEF FailsOnlyAlone
<1>7. /\ smallestUnconfirmedTick = [x \in Players |-> smallestUnconfirmedTick[x]]
      /\ unconfirmedReadTick = [x \in Players |-> unconfirmedReadTick[x]]
      /\ unconfirmedWriteTick = [x \in Players |-> unconfirmedWriteTick[x]]
      /\ outgoingWriteTick = [x \in Players |-> outgoingWriteTick[x]]
      /\ spokeConnected = [x \in Players |-> spokeConnected[x]]
  BY DEF SpokesInvariant, GameInvariant, SpokesSound, LinksInvariant, MachinesTyped
<1>8. CASE SpokeTick(p) /\ ConnectedTick(p)
  <2> DEFINE write == outgoingWriteTick[p] + FlagsProvided(p)
             unconfirmed == unconfirmedWriteTick[p] + Larger(write - Larger(outgoingWriteTick[p], StartingTick), 0)
  <2>1. FlagsProvided(p) \in Nat
    BY <1>1, FlagsFit DEF SpokesInvariant, GameInvariant
  <2>2. /\ UNCHANGED <<spokeConnected, unconfirmedReadTick, smallestUnconfirmedTick, gameFlags>>
        /\ outgoingWriteTick' = [outgoingWriteTick EXCEPT ![p] = write]
        /\ unconfirmedWriteTick' = [unconfirmedWriteTick EXCEPT ![p] = unconfirmed]
    BY <1>7, <1>8 DEF SpokeTick, ConnectedTick
  <2>3. outgoingWriteTick'[p] = write /\ unconfirmedWriteTick'[p] = unconfirmed
    <3> HIDE DEF write, unconfirmed
    <3> QED BY <1>1, <1>7, <2>2
  <2>4. unconfirmedWriteTick[p] = Larger(outgoingWriteTick[p], StartingTick)
    BY <1>1 DEF QueuesAgree
  <2>5. unconfirmed = Larger(write, StartingTick) /\ unconfirmedWriteTick[p] <= unconfirmed
    <3> HIDE DEF FlagsProvided
    <3> QED BY <1>4, <2>1, <2>4 DEF Larger
  <2>6. unconfirmed \in Int
    <3> HIDE DEF FlagsProvided
    <3> QED BY <1>4, <2>1 DEF Larger
  <2> HIDE DEF write, unconfirmed
  <2>7. QueuesAgree(p)'
    BY <1>1, <1>3, <1>4, <2>2, <2>3, <2>5, <2>6 DEF QueuesAgree, InGame
  <2>8. ExpectsItsOwn(p)'
    <3>1. smallestUnconfirmedTick[p] <= Larger(FirstDue(p), unconfirmed)
      <4>1. smallestUnconfirmedTick[p] <= Larger(FirstDue(p), unconfirmedWriteTick[p])
        BY <1>1, <1>8 DEF ConnectedTick, ExpectsItsOwn
      <4> QED BY <1>4, <2>5, <2>6, <4>1 DEF Larger
    <3>2. ExpectsItsOwn(p)
      BY <1>1, <1>8 DEF ConnectedTick
    <3> QED BY <1>5, <2>2, <2>3, <3>1, <3>2 DEF ExpectsItsOwn, InGame
  <2> QED BY <1>6, <2>7, <2>8 DEF StaysInStep
<1>9. CASE SpokeTick(p) /\ CutOffTick(p)
  <2>1. /\ UNCHANGED <<spokeConnected, unconfirmedReadTick, outgoingWriteTick, unconfirmedWriteTick>>
        /\ ~spokeConnected[p]
        /\ smallestUnconfirmedTick' = [smallestUnconfirmedTick EXCEPT ![p] = Larger(@, unconfirmedWriteTick[p])]
    BY <1>9 DEF SpokeTick, CutOffTick
  <2>2. smallestUnconfirmedTick'[p] = Larger(smallestUnconfirmedTick[p], unconfirmedWriteTick[p])
    BY <1>1, <1>7, <2>1
  <2>3. unconfirmedReadTick[p] <= Larger(smallestUnconfirmedTick[p], unconfirmedWriteTick[p])
    BY <1>1, <1>4 DEF QueuesAgree, Larger
  <2>4. QueuesAgree(p)'
    BY <1>1, <1>3, <2>1, <2>2, <2>3 DEF QueuesAgree, InGame
  <2> QED BY <1>6, <2>1, <2>4 DEF StaysInStep
<1>10. CASE SpokeGivesUp(p)
  <2>1. /\ spokeConnected' = [spokeConnected EXCEPT ![p] = FALSE]
        /\ UNCHANGED <<outgoingWriteTick, unconfirmedReadTick, unconfirmedWriteTick, smallestUnconfirmedTick>>
    BY <1>10 DEF SpokeGivesUp, spokeQueueVars
  <2>2. ~spokeConnected'[p]
    BY <1>1, <1>7, <2>1
  <2>3. QueuesAgree(p)'
    BY <1>1, <1>3, <2>1 DEF QueuesAgree, InGame
  <2> QED BY <1>6, <2>2, <2>3 DEF StaysInStep
<1>11. CASE ForgetConfirmed(p)
  <2>1. /\ UNCHANGED <<outgoingWriteTick, unconfirmedWriteTick, smallestUnconfirmedTick, spokeConnected, gameFlags>>
        /\ unconfirmedReadTick[p] < Smaller(smallestUnconfirmedTick[p], unconfirmedWriteTick[p])
        /\ unconfirmedReadTick' = [unconfirmedReadTick EXCEPT ![p] =
                                     Smaller(smallestUnconfirmedTick[p], unconfirmedWriteTick[p])]
    BY <1>11 DEF ForgetConfirmed, receivedVars
  <2>2. unconfirmedReadTick'[p] = Smaller(smallestUnconfirmedTick[p], unconfirmedWriteTick[p])
    BY <1>1, <1>7, <2>1
  <2>3. /\ StartingTick <= unconfirmedReadTick'[p] /\ unconfirmedReadTick'[p] <= smallestUnconfirmedTick[p]
        /\ unconfirmedReadTick'[p] <= unconfirmedWriteTick[p]
    BY <1>1, <1>4, <2>1, <2>2 DEF QueuesAgree, Smaller
  <2>4. QueuesAgree(p)'
    BY <1>1, <1>3, <2>1, <2>3 DEF QueuesAgree, InGame
  <2>5. ExpectsItsOwn(p) => ExpectsItsOwn(p)'
    BY <1>5, <2>1 DEF ExpectsItsOwn, InGame
  <2> QED BY <1>1, <1>6, <2>1, <2>4, <2>5 DEF StaysInStep
<1>12. CASE GameAdvances(p) \/ SpokeCleanup(p)
  <2>1. UNCHANGED <<spokeConnected, spokeQueueVars, viewVars, receivedVars, spokeFailures>>
    BY <1>12 DEF GameAdvances, SpokeCleanup
  <2>2. SameMachine(p)
    BY <2>1 DEF SameMachine, spokeQueueVars, receivedVars
  <2>3. StaysInStep(p) /\ p \in stillConnected[p]
    BY DEF MachinesInvariant, StaysInStep, QueuesAgree
  <2> QED BY <1>2, <1>3, <2>2, <2>3, SameStaysInStep DEF SpokesInvariant
<1> QED BY <1>8, <1>9, <1>10, <1>11, <1>12 DEF OwnStep, SpokeTick

\* A player without a queue has no machine.
LEMMA StepHolds ==
  ASSUME ~Standalone, SpokesInvariant, MachinesInvariant, [GameNext]_gameVars
  PROVE  MachinesInvariant'
<1>1. CASE HubAction
  BY <1>1, HubKeepsStep DEF SpokesInvariant
<1>2. ASSUME UNCHANGED hubVars PROVE DatesStand
  BY <1>2 DEF DatesStand, hubVars, playerVars
<1>3. ASSUME UNCHANGED hubVars, madeUp' = madeUp, NEW p \in Players,
             OwnStep(p) \/ \E k \in DOMAIN toSpoke[p] : SpokeReceives(p, toSpoke[p][k])
      PROVE  MachinesInvariant'
  <2>1. \A k \in DOMAIN toSpoke[p] : /\ FrameToSpokeSound(p, toSpoke[p][k]) /\ FrameDecided(p, toSpoke[p][k])
                                     /\ FrameFits(p, toSpoke[p][k])
    BY DEF SpokesInvariant, GameInvariant, WiresSound, LockstepInvariant, WiresDecided, DeathsInvariant, FramesFit
  <2>2. OwnStep(p) \/ \E f : /\ FrameToSpokeSound(p, f) /\ FrameDecided(p, f) /\ FrameFits(p, f)
                             /\ SpokeReceives(p, f)
    BY <1>3, <2>1
  <2>3. p \in InGame
    <3>1. spokeActive[p]
      BY <2>2 DEF OwnStep, SpokeTick, SpokeGivesUp, ForgetConfirmed, GameAdvances, SpokeCleanup, SpokeReceives, Running
    <3> QED BY <3>1 DEF SpokesInvariant, LinksInvariant, ZombiesRest, InGame
  <2>4. \A r \in Players : r # p => SameMachine(r) /\ stillConnected'[r] = stillConnected[r]
    BY <2>2, OthersUntouched DEF SpokesInvariant, LinksInvariant
  <2>5. StaysInStep(p)'
    BY <1>3, <2>2, <2>3, OwnStepStaysInStep, ReceiptStaysInStep
  <2>6. ASSUME NEW r \in InGame, r # p PROVE StaysInStep(r)'
    <3>1. SameMachine(r) /\ stillConnected'[r] = stillConnected[r]
      BY <2>4, <2>6 DEF InGame
    <3>2. StaysInStep(r) /\ r \in stillConnected[r]
      BY DEF MachinesInvariant, StaysInStep, QueuesAgree
    <3> QED BY <1>2, <1>3, <3>1, <3>2, SameStaysInStep DEF SpokesInvariant
  <2>7. \A z \in Zombies : spokeFailures'[z] = {}
    BY <2>3, <2>4, SpokeConstants DEF MachinesInvariant, SameMachine, InGame
  <2> QED BY <1>3, <2>5, <2>6, <2>7 DEF MachinesInvariant, InGame
<1>4. CASE NoAction
  <2>1. UNCHANGED spokeVars /\ UNCHANGED hubVars /\ madeUp' = madeUp
    BY <1>4 DEF NoAction
  <2>2. UNCHANGED <<spokeFailures, stillConnected>>
    BY <2>1 DEF spokeVars, viewVars
  <2>3. ASSUME NEW r \in InGame PROVE StaysInStep(r)'
    <3>1. SameMachine(r)
      BY <2>1 DEF SameMachine, spokeVars, spokeQueueVars, receivedVars
    <3>2. StaysInStep(r) /\ r \in stillConnected[r]
      BY DEF MachinesInvariant, StaysInStep, QueuesAgree
    <3> QED BY <1>2, <2>1, <2>2, <3>1, <3>2, SameStaysInStep DEF SpokesInvariant
  <2> QED BY <2>1, <2>2, <2>3 DEF MachinesInvariant, InGame
<1> QED BY <1>1, <1>3, <1>4, StepKinds DEF SpokesInvariant, ReceiptAction, OwnAction

LEMMA StepBegins == ASSUME ~Standalone, GameInit PROVE MachinesInvariant
<1>1. /\ SpokeInit(connected) /\ connected = Players \ Zombies /\ madeUp = [t \in Ticks |-> {}]
  BY DEF GameInit
<1>2. FirstTick \in Int /\ StartingTick \in Int /\ FirstTick <= StartingTick
  BY Constants, HubConstants DEF FirstTick
<1>3. Len(<< >>) = 0
  OBVIOUS
<1>4. ASSUME NEW p \in InGame PROVE StaysInStep(p)
  <2>1. /\ smallestUnreceivedTick[p] = FirstTick /\ smallestUnconfirmedTick[p] = StartingTick
        /\ unconfirmedReadTick[p] = StartingTick /\ unconfirmedWriteTick[p] = StartingTick
        /\ outgoingWriteTick[p] = FirstTick /\ stillConnected[p] = InGame /\ spokeFailures[p] = {}
        /\ \A q \in Players : gameFlags[p][q] = << >>
    BY <1>1 DEF SpokeInit, InGame
  <2>2. Larger(FirstTick, StartingTick) = StartingTick /\ Larger(StartingTick, StartingTick) = StartingTick
    BY <1>2 DEF Larger
  <2>3. FirstDue(p) = StartingTick
    BY <2>1, <2>2 DEF FirstDue
  <2>4. \A q \in InGame : GameWriteTick(p, q) = StartingTick
    BY <1>2, <1>3, <2>1 DEF GameWriteTick, InGame
  <2>5. QueuesAgree(p)
    BY <1>2, <2>1, <2>2 DEF QueuesAgree
  <2>6. ExpectsItsOwn(p)
    BY <1>2, <2>1, <2>2, <2>3, <2>4 DEF ExpectsItsOwn
  <2> QED BY <2>1, <2>5, <2>6 DEF StaysInStep, FailsOnlyAlone
<1>5. \A z \in Zombies : spokeFailures[z] = {}
  BY <1>1, SpokeConstants DEF SpokeInit
<1> QED BY <1>1, <1>4, <1>5 DEF MachinesInvariant

\* Every machine stays where its frames are: the queues of all players end at the same tick on a
\* machine in touch with the hub, the unconfirmed flags end with the outgoing ones, and of the
\* asserts of the loop over the ticks of a packet only the one on line 589 can fail, and only where
\* bandwidth is reduced and everybody else is dead.
THEOREM MachinesStayInStep == ASSUME ~Standalone PROVE GameSpec => []MachinesInvariant
<1>1. SpokesInvariant /\ MachinesInvariant /\ [GameNext]_gameVars => (SpokesInvariant /\ MachinesInvariant)'
  BY SpokesStep, StepHolds
<1>2. GameInit => SpokesInvariant /\ MachinesInvariant
  BY SpokesBegin, StepBegins
<1> QED BY <1>1, <1>2, PTL DEF GameSpec

\* Without bandwidth reduction no spoke is ever out of step with the hub: it finds in every packet
\* the flags of exactly those players it expects, and its queues where the packet begins (lines
\* 534-536, 577 and 589).
THEOREM SpokesStayInStep ==
  ASSUME ~Standalone, ~BandwidthReduction PROVE GameSpec => []SpokesInStep
<1>1. MachinesInvariant => SpokesInStep
  BY DEF MachinesInvariant, SpokesInStep, StaysInStep, FailsOnlyAlone, InGame
<1> QED BY <1>1, MachinesStayInStep, PTL

\* With it, no spoke is out of step as long as it knows of somebody else in the game.
THEOREM SpokesInCompanyStayInStep == ASSUME ~Standalone PROVE GameSpec => []InStepInCompany
<1>1. MachinesInvariant => InStepInCompany
  <2>1. ASSUME NEW p \in InGame, Alone(p), QueuesAgree(p) PROVE ~InCompany(p)
    BY <2>1 DEF Alone, QueuesAgree, InCompany, InGame
  <2> QED BY <2>1 DEF MachinesInvariant, InStepInCompany, StaysInStep, FailsOnlyAlone, InGame
<1> QED BY <1>1, MachinesStayInStep, PTL


-----------------------------------------------------------------------------
(* How much the queues hold.                                                 *)

\* The action queues of p, with the flags still to go into its own, end with the last tick its
\* players make flags for.
QueuesEnd(p) ==
  /\ StartingTick <= smallestUnconfirmedTick[p] /\ smallestUnconfirmedTick[p] <= Horizon
  /\ \A q \in InGame : GameWriteTick(p, q) <= Horizon
  /\ GameWriteTick(p, p) + Len(Unconfirmed(p)) <= Horizon

\* The outgoing and the unconfirmed flags of p never exceed their capacity; in touch with the hub
\* its action queues end where MachinesInvariant says, cut off no later than what p may make.
QueuesFit(p) ==
  /\ outgoingWriteTick[p] - outgoingReadTick[p] <= OutgoingFlagsQueueSize
  /\ unconfirmedWriteTick[p] - unconfirmedReadTick[p] <= OutgoingFlagsQueueSize
  /\ ~spokeConnected[p] => QueuesEnd(p)

\* Nothing is kept for players without an action queue.
ZombiesIdle ==
  /\ \A z \in Zombies : /\ unconfirmedReadTick[z] = StartingTick /\ unconfirmedWriteTick[z] = StartingTick
                        /\ smallestUnconfirmedTick[z] = StartingTick
                        /\ outgoingReadTick[z] = outgoingWriteTick[z]
  /\ \A p, q \in Players : p \in Zombies \/ q \in Zombies => gameFlags[p][q] = << >>

QueuesInvariant ==
  /\ ZombiesIdle /\ \A p \in InGame : QueuesFit(p)
  /\ \A t \in Ticks : madeUp[t] \subseteq Players

LEMMA UnconfirmedCount ==
  ASSUME SpokesSound, NEW p \in Players
  PROVE  Len(Unconfirmed(p)) = Larger(unconfirmedWriteTick[p] - smallestUnconfirmedTick[p], 0)
<1> DEFINE n == Larger(unconfirmedWriteTick[p] - smallestUnconfirmedTick[p], 0)
           g == Unconfirmed(p)
<1>1. n \in Nat
  BY SpokeNumbers DEF Larger
<1>2. g = [k \in 1 .. n |-> g[k]]
  BY DEF Unconfirmed
<1> HIDE DEF n, g
<1>3. IsSequence(g) /\ DOMAIN g = 1 .. n
  BY <1>1, <1>2, Listed
<1>4. Len(g) \in Nat /\ 1 .. Len(g) = 1 .. n
  BY <1>3, SequenceLength
<1>5. Len(g) = n
  BY <1>1, <1>4
<1> QED BY <1>5 DEF n, g

LEMMA FlagsHaveRoom ==
  ASSUME SpokesSound, NEW p \in Players
  PROVE  /\ FlagsProvided(p) \in Nat
         /\ FlagsProvided(p) # 0 /\ spokeConnected[p] =>
              /\ FlagsProvided(p) <= OutgoingFlagsQueueSize - (outgoingWriteTick[p] - outgoingReadTick[p])
              /\ FlagsProvided(p) <= Larger(StartingTick - outgoingWriteTick[p], 0)
                                       + (OutgoingFlagsQueueSize - (unconfirmedWriteTick[p] - unconfirmedReadTick[p]))
         /\ FlagsProvided(p) # 0 /\ ~spokeConnected[p] =>
              GameWriteTick(p, p) + FlagsProvided(p) + Len(Unconfirmed(p)) <= Horizon
<1> DEFINE outgoing == OutgoingFlagsQueueSize - (outgoingWriteTick[p] - outgoingReadTick[p])
           unconfirmed == OutgoingFlagsQueueSize - (unconfirmedWriteTick[p] - unconfirmedReadTick[p])
           pregame == Larger(StartingTick - outgoingWriteTick[p], 0)
           bound == Horizon - outgoingWriteTick[p]
           own == ActionQueueSize - (Len(gameFlags[p][p]) - gameTicks[p])
           toMake == Horizon - GameWriteTick(p, p) - Len(Unconfirmed(p))
<1>1. /\ outgoing \in Int /\ unconfirmed \in Int /\ bound \in Int
      /\ Len(gameFlags[p][p]) \in Int /\ Len(Unconfirmed(p)) \in Int /\ gameTicks[p] \in Int
      /\ Horizon \in Int /\ StartingTick \in Int /\ ActionQueueSize \in Int
      /\ outgoingWriteTick[p] \in Int /\ outstandingAdjustment[p] \in Int
  <2>1. /\ outgoingReadTick[p] \in Int /\ outgoingWriteTick[p] \in Int
        /\ unconfirmedReadTick[p] \in Int /\ unconfirmedWriteTick[p] \in Int
        /\ gameTicks[p] \in Int /\ outstandingAdjustment[p] \in Int
        /\ Horizon \in Int /\ StartingTick \in Int /\ ActionQueueSize \in Int /\ OutgoingFlagsQueueSize \in Int
    BY SpokeNumbers
  <2>2. Len(gameFlags[p][p]) \in Int /\ Len(Unconfirmed(p)) \in Int
    BY SpokeNumbers
  <2> QED BY <2>1, <2>2
<1>2. own \in Int /\ toMake \in Int /\ GameWriteTick(p, p) \in Int
  <2>1. GameWriteTick(p, p) \in Int
    BY <1>1 DEF GameWriteTick
  <2>2. own \in Int
    <3>1. ActionQueueSize \in Int /\ Len(gameFlags[p][p]) \in Int /\ gameTicks[p] \in Int
      BY <1>1
    <3> QED BY <3>1
  <2> QED BY <1>1, <2>1, <2>2
<1>3. pregame \in Int
  BY <1>1 DEF Larger
<1>4. FlagsRoom(p) = IF ~spokeConnected[p] THEN Smaller(own, toMake)
                     ELSE Smaller(Smaller(outgoing, pregame + unconfirmed), bound)
  <2>1. CASE spokeConnected[p]
    BY Zenon, <2>1 DEF FlagsRoom
  <2>2. CASE ~spokeConnected[p]
    BY Zenon, <2>2 DEF FlagsRoom
  <2> QED BY <2>1, <2>2
<1>5. FlagsProvided(p) \in Nat
  BY FlagsFit
<1>6. FlagsProvided(p) # 0 => FlagsProvided(p) <= FlagsRoom(p)
  <2>1. FlagsRoom(p) \in Int
    <3> HIDE DEF outgoing, unconfirmed, pregame, bound, own, toMake
    <3>1. pregame + unconfirmed \in Int
      BY <1>1, <1>3
    <3> QED BY <1>1, <1>2, <1>4, <3>1 DEF Smaller
  <2> QED BY <1>1, <2>1 DEF FlagsProvided, Smaller, Larger
<1>7. \A a, b \in Int : Smaller(a, b) \in Int /\ Smaller(a, b) <= a /\ Smaller(a, b) <= b
  BY DEF Smaller
<1>8. ASSUME FlagsProvided(p) # 0, spokeConnected[p]
      PROVE  FlagsProvided(p) <= outgoing /\ FlagsProvided(p) <= pregame + unconfirmed
  <2> HIDE DEF outgoing, unconfirmed, pregame, bound, own, toMake
  <2>1. /\ Smaller(outgoing, pregame + unconfirmed) \in Int /\ Smaller(outgoing, pregame + unconfirmed) <= outgoing
        /\ Smaller(outgoing, pregame + unconfirmed) <= pregame + unconfirmed /\ pregame + unconfirmed \in Int
    <3>1. pregame + unconfirmed \in Int
      BY <1>1, <1>3
    <3> QED BY <1>1, <1>7, <3>1
  <2>2. FlagsRoom(p) \in Int /\ FlagsRoom(p) <= Smaller(outgoing, pregame + unconfirmed)
    BY <1>1, <1>4, <1>7, <1>8, <2>1
  <2> QED BY <1>1, <1>5, <1>6, <1>8, <2>1, <2>2
<1>9. ASSUME FlagsProvided(p) # 0, ~spokeConnected[p] PROVE FlagsProvided(p) <= toMake
  <2> HIDE DEF outgoing, unconfirmed, pregame, bound, own, toMake
  <2>1. FlagsRoom(p) \in Int /\ FlagsRoom(p) <= toMake
    BY <1>2, <1>4, <1>7, <1>9
  <2> QED BY <1>2, <1>5, <1>6, <1>9, <2>1
<1>10. FlagsProvided(p) <= toMake => GameWriteTick(p, p) + FlagsProvided(p) + Len(Unconfirmed(p)) <= Horizon
  BY <1>1, <1>2, <1>5
<1> QED BY <1>5, <1>8, <1>9, <1>10

\* Of the flags made before the game none is unconfirmed.
LEMMA UnconfirmedRoom ==
  ASSUME NEW outgoing \in Int, NEW write \in Int, NEW read \in Int, StartingTick \in Int, NEW size \in Int,
         NEW made \in Nat, write - read <= size,
         made # 0 => made <= Larger(StartingTick - outgoing, 0) + (size - (write - read))
  PROVE  (write + Larger((outgoing + made) - Larger(outgoing, StartingTick), 0)) - read <= size
<1>1. CASE made = 0
  BY <1>1 DEF Larger
<1>2. CASE made # 0 /\ outgoing >= StartingTick
  BY <1>2 DEF Larger
<1>3. CASE made # 0 /\ ~(outgoing >= StartingTick)
  BY <1>3 DEF Larger
<1> QED BY <1>1, <1>2, <1>3

\* In touch with the hub, what p keeps of its own ends with the last tick it has made flags for.
LEMMA ConnectedQueuesEnd ==
  ASSUME SpokesInvariant, StartingTick <= Horizon, NEW p \in InGame, StaysInStep(p), spokeConnected[p]
  PROVE  QueuesEnd(p)
<1>1. p \in Players /\ SpokesSound /\ QueuesAgree(p) /\ ExpectsItsOwn(p)
  BY DEF InGame, StaysInStep, SpokesInvariant, GameInvariant
<1>2. /\ FirstDue(p) \in Int /\ StartingTick <= FirstDue(p) /\ FirstDue(p) <= Horizon
      /\ smallestUnconfirmedTick[p] \in Int /\ Horizon \in Int /\ StartingTick \in Int
  <2>1. smallestUnreceivedTick[p] <= Horizon
    BY <1>1, Constants DEF SpokesSound
  <2> QED BY <1>1, <2>1, StepNumbers, Constants DEF SpokesInvariant
<1>3. unconfirmedWriteTick[p] \in Int /\ unconfirmedWriteTick[p] <= Horizon
  BY <1>1, SpokeNumbers DEF QueuesAgree, Larger
<1>4. /\ FirstDue(p) <= smallestUnconfirmedTick[p]
      /\ smallestUnconfirmedTick[p] <= Larger(FirstDue(p), unconfirmedWriteTick[p])
      /\ GameWriteTick(p, p) = smallestUnconfirmedTick[p]
      /\ \A q \in InGame \ {p} : GameWriteTick(p, q) = FirstDue(p)
  BY <1>1 DEF ExpectsItsOwn
<1>5. smallestUnconfirmedTick[p] <= Horizon
  BY <1>2, <1>3, <1>4 DEF Larger
<1>6. Len(Unconfirmed(p)) = Larger(unconfirmedWriteTick[p] - smallestUnconfirmedTick[p], 0)
  BY <1>1, UnconfirmedCount
<1>7. GameWriteTick(p, p) + Len(Unconfirmed(p)) <= Horizon
  BY <1>2, <1>3, <1>4, <1>5, <1>6 DEF Larger
<1> QED BY <1>2, <1>4, <1>5, <1>7 DEF QueuesEnd

\* What p makes goes where there is room for it.
LEMMA OwnStepKeepsQueues ==
  ASSUME SpokesInvariant, StartingTick <= Horizon, NEW p \in InGame, StaysInStep(p), QueuesFit(p), OwnStep(p)
  PROVE  QueuesFit(p)' /\ \A z \in Zombies : gameFlags'[p][z] = gameFlags[p][z]
<1>1. p \in Players /\ SpokesSound /\ QueuesAgree(p) /\ \A z \in Zombies : z # p /\ z \in Players
  BY SpokeConstants DEF InGame, StaysInStep, SpokesInvariant, GameInvariant
<1>2. /\ outgoingReadTick[p] \in Int /\ outgoingWriteTick[p] \in Int /\ outgoingWriteTick[p] <= Horizon
      /\ unconfirmedReadTick[p] \in Int /\ unconfirmedWriteTick[p] \in Int
      /\ smallestUnconfirmedTick[p] \in Int /\ FlagsProvided(p) \in Nat
      /\ Horizon \in Int /\ StartingTick \in Int /\ OutgoingFlagsQueueSize \in Int
      /\ \A q \in Players : IsSequence(gameFlags[p][q]) /\ Len(gameFlags[p][q]) \in Nat
      /\ Len(Unconfirmed(p)) \in Nat
  BY <1>1, SpokeNumbers, FlagsHaveRoom
<1>3. /\ smallestUnconfirmedTick = [x \in Players |-> smallestUnconfirmedTick[x]]
      /\ unconfirmedReadTick = [x \in Players |-> unconfirmedReadTick[x]]
      /\ unconfirmedWriteTick = [x \in Players |-> unconfirmedWriteTick[x]]
      /\ outgoingWriteTick = [x \in Players |-> outgoingWriteTick[x]]
      /\ spokeConnected = [x \in Players |-> spokeConnected[x]]
      /\ gameFlags = [x \in Players |-> gameFlags[x]]
  BY DEF SpokesInvariant, GameInvariant, SpokesSound, LinksInvariant, MachinesTyped
<1>4. outgoingReadTick' = outgoingReadTick
  BY <1>1, OwnStepGrows DEF SpokesInvariant, LinksInvariant
<1>5. /\ outgoingWriteTick[p] - outgoingReadTick[p] <= OutgoingFlagsQueueSize
      /\ unconfirmedWriteTick[p] - unconfirmedReadTick[p] <= OutgoingFlagsQueueSize
      /\ QueuesEnd(p)
  BY ConnectedQueuesEnd DEF QueuesFit
<1>6. CASE SpokeTick(p) /\ ConnectedTick(p)
  <2> DEFINE made == FlagsProvided(p)
             write == outgoingWriteTick[p] + made
             unconfirmed == unconfirmedWriteTick[p] + Larger(write - Larger(outgoingWriteTick[p], StartingTick), 0)
  <2>1. /\ UNCHANGED <<spokeConnected, unconfirmedReadTick, gameFlags>> /\ spokeConnected[p]
        /\ outgoingWriteTick' = [outgoingWriteTick EXCEPT ![p] = write]
        /\ unconfirmedWriteTick' = [unconfirmedWriteTick EXCEPT ![p] = unconfirmed]
    BY <1>1, <1>3, <1>6 DEF SpokeTick, ConnectedTick
  <2>2. outgoingWriteTick'[p] = write /\ unconfirmedWriteTick'[p] = unconfirmed
    <3> HIDE DEF write, unconfirmed
    <3> QED BY <1>1, <1>3, <2>1
  <2>3. made # 0 =>
          /\ made <= OutgoingFlagsQueueSize - (outgoingWriteTick[p] - outgoingReadTick[p])
          /\ made <= Larger(StartingTick - outgoingWriteTick[p], 0)
                       + (OutgoingFlagsQueueSize - (unconfirmedWriteTick[p] - unconfirmedReadTick[p]))
    BY <1>1, <2>1, FlagsHaveRoom
  <2>4. made \in Nat
    BY <1>2
  <2> HIDE DEF made
  <2>5. write - outgoingReadTick[p] <= OutgoingFlagsQueueSize
    BY <1>2, <1>5, <2>3, <2>4
  <2>6. unconfirmed - unconfirmedReadTick[p] <= OutgoingFlagsQueueSize
    BY <1>2, <1>5, <2>3, <2>4, UnconfirmedRoom
  <2> HIDE DEF write, unconfirmed
  <2> QED BY <1>4, <2>1, <2>2, <2>5, <2>6 DEF QueuesFit
<1>7. CASE SpokeTick(p) /\ CutOffTick(p)
  <2> DEFINE made == [k \in 1 .. FlagsProvided(p) |-> AloneFlags]
             own == gameFlags[p][p] \o made
  <2>1. /\ UNCHANGED <<spokeConnected, unconfirmedReadTick, outgoingWriteTick, unconfirmedWriteTick>>
        /\ ~spokeConnected[p]
        /\ smallestUnconfirmedTick' = [smallestUnconfirmedTick EXCEPT ![p] = Larger(@, unconfirmedWriteTick[p])]
        /\ gameFlags' = [gameFlags EXCEPT ![p] =
             [q \in Players |-> IF q = p THEN own \o Unconfirmed(p)
                                ELSE IF q \in Zombies THEN @[q]
                                ELSE FilledWithNetDead(@[q], StartingTick + Len(own))]]
    BY <1>7 DEF SpokeTick, CutOffTick
  <2>2. smallestUnconfirmedTick'[p] = Larger(smallestUnconfirmedTick[p], unconfirmedWriteTick[p])
    BY <1>1, <1>3, <2>1
  <2>3. IsSequence(own) /\ Len(own) = Len(gameFlags[p][p]) + FlagsProvided(p) /\ Len(own) \in Nat
    <3>1. made = [k \in 1 .. FlagsProvided(p) |-> made[k]]
      OBVIOUS
    <3> HIDE DEF made
    <3>2. IsSequence(own) /\ Len(own) = Len(gameFlags[p][p]) + FlagsProvided(p)
      BY <1>1, <1>2, <3>1, Lengthened
    <3> QED BY <1>1, <1>2, <3>2, SequenceLength
  <2> HIDE DEF own
  <2>n. /\ StartingTick \in Int /\ Horizon \in Int /\ Len(own) \in Nat /\ Len(Unconfirmed(p)) \in Nat
        /\ Len(gameFlags[p][p]) \in Nat /\ FlagsProvided(p) \in Nat
    BY <1>1, <1>2, <2>3
  <2>4. /\ gameFlags'[p][p] = own \o Unconfirmed(p)
        /\ \A q \in InGame \ {p} : gameFlags'[p][q] = FilledWithNetDead(gameFlags[p][q], StartingTick + Len(own))
        /\ \A z \in Zombies : gameFlags'[p][z] = gameFlags[p][z]
    BY <1>1, <1>3, <2>1 DEF InGame
  <2>5. StartingTick + Len(own) + Len(Unconfirmed(p)) <= Horizon
    <3>1. CASE FlagsProvided(p) = 0
      BY <1>1, <1>2, <1>5, <2>3, <3>1 DEF QueuesEnd, GameWriteTick
    <3>2. CASE FlagsProvided(p) # 0
      <4>1. GameWriteTick(p, p) + FlagsProvided(p) + Len(Unconfirmed(p)) <= Horizon
        BY <1>1, <2>1, <3>2, FlagsHaveRoom
      <4>2. GameWriteTick(p, p) = StartingTick + Len(gameFlags[p][p])
        BY DEF GameWriteTick
      <4>3. StartingTick + (Len(gameFlags[p][p]) + FlagsProvided(p)) + Len(Unconfirmed(p)) <= Horizon
        BY <2>n, <4>1, <4>2
      <4>4. Len(own) = Len(gameFlags[p][p]) + FlagsProvided(p)
        BY <2>3
      <4> QED BY <4>3, <4>4
    <3> QED BY <3>1, <3>2
  <2>6. GameWriteTick(p, p)' = StartingTick + Len(own) + Len(Unconfirmed(p))
    <3>1. Len(own \o Unconfirmed(p)) = Len(own) + Len(Unconfirmed(p))
      BY <1>1, <2>3, UnconfirmedLength, UnconfirmedCount
    <3>2. GameWriteTick(p, p)' = StartingTick + Len(own \o Unconfirmed(p))
      BY <2>4 DEF GameWriteTick
    <3> QED BY <2>n, <3>1, <3>2
  <2>7. ASSUME NEW q \in InGame \ {p} PROVE GameWriteTick(p, q)' <= Horizon
    <3>1. q \in Players /\ StartingTick + Len(own) \in Int
      <4>1. q \in Players
        BY DEF InGame
      <4>2. StartingTick + Len(own) \in Int
        BY <2>n
      <4> QED BY <4>1, <4>2
    <3>2. StartingTick + Len(gameFlags'[p][q]) = Larger(StartingTick + Len(own), StartingTick + Len(gameFlags[p][q]))
      BY <1>2, <2>4, <3>1, FilledLength
    <3>3. StartingTick + Len(gameFlags[p][q]) <= Horizon
      BY <1>5 DEF QueuesEnd, GameWriteTick
    <3>4. StartingTick + Len(own) <= Horizon
      BY <2>n, <2>5
    <3> QED BY <3>2, <3>3, <3>4 DEF GameWriteTick, Larger
  <2>8. unconfirmedWriteTick[p] <= Horizon
    BY <1>1, <1>2 DEF QueuesAgree, Larger
  <2>9. StartingTick <= smallestUnconfirmedTick'[p] /\ smallestUnconfirmedTick'[p] <= Horizon
    BY <1>2, <1>5, <2>2, <2>8 DEF QueuesEnd, Larger
  <2>10. Len(Unconfirmed(p))' = 0
    <3>1. Larger(unconfirmedWriteTick[p] - smallestUnconfirmedTick'[p], 0) = 0
      BY <1>2, <2>2 DEF Larger
    <3>2. Unconfirmed(p)' = [k \in 1 .. 0 |-> Real(smallestUnconfirmedTick'[p] + k - 1)]
      BY <2>1, <3>1 DEF Unconfirmed
    <3>3. Unconfirmed(p)' = << >>
      BY <3>2
    <3> QED BY <3>3
  <2>11. GameWriteTick(p, p)' + Len(Unconfirmed(p))' <= Horizon
    <3>1. GameWriteTick(p, p)' \in Int /\ GameWriteTick(p, p)' <= Horizon
      BY <2>n, <2>5, <2>6
    <3> QED BY <2>10, <3>1
  <2>12. GameWriteTick(p, p)' <= Horizon
    BY <2>n, <2>5, <2>6
  <2>13. QueuesEnd(p)'
    BY <2>7, <2>9, <2>11, <2>12 DEF QueuesEnd, InGame
  <2> QED BY <1>4, <1>5, <2>1, <2>4, <2>13 DEF QueuesFit
<1>8. ASSUME UNCHANGED <<smallestUnconfirmedTick, unconfirmedWriteTick, gameFlags>> PROVE QueuesEnd(p)'
  BY <1>5, <1>8 DEF QueuesEnd, GameWriteTick, Unconfirmed, InGame
<1>9. CASE SpokeGivesUp(p) \/ GameAdvances(p) \/ SpokeCleanup(p)
  <2>1. UNCHANGED <<smallestUnconfirmedTick, unconfirmedWriteTick, unconfirmedReadTick, outgoingWriteTick, gameFlags>>
    BY <1>9 DEF SpokeGivesUp, GameAdvances, SpokeCleanup, spokeQueueVars, receivedVars
  <2>2. QueuesEnd(p)'
    BY <1>8, <2>1
  <2> QED BY <1>4, <1>5, <2>1, <2>2 DEF QueuesFit
<1>10. CASE ForgetConfirmed(p)
  <2>1. /\ UNCHANGED <<smallestUnconfirmedTick, unconfirmedWriteTick, outgoingWriteTick, gameFlags>>
        /\ unconfirmedReadTick[p] < Smaller(smallestUnconfirmedTick[p], unconfirmedWriteTick[p])
        /\ unconfirmedReadTick' = [unconfirmedReadTick EXCEPT ![p] =
                                     Smaller(smallestUnconfirmedTick[p], unconfirmedWriteTick[p])]
    BY <1>10 DEF ForgetConfirmed, receivedVars
  <2>2. unconfirmedReadTick'[p] = Smaller(smallestUnconfirmedTick[p], unconfirmedWriteTick[p])
    BY <1>1, <1>3, <2>1
  <2>3. unconfirmedWriteTick[p] - unconfirmedReadTick'[p] <= OutgoingFlagsQueueSize
    BY <1>2, <1>5, <2>1, <2>2 DEF Smaller
  <2>4. QueuesEnd(p)'
    BY <1>8, <2>1
  <2> QED BY <1>4, <1>5, <2>1, <2>3, <2>4 DEF QueuesFit
<1> QED BY <1>6, <1>7, <1>9, <1>10 DEF OwnStep, SpokeTick


\* What p takes from a frame of the hub leaves its own queues where they are, or acknowledged.
LEMMA ReceiptKeepsQueues ==
  ASSUME SpokesInvariant, NEW p \in Players, QueuesFit(p), NEW f, FrameFits(p, f), FrameToSpokeSound(p, f),
         FrameDecided(p, f), SpokeReceives(p, f)
  PROVE  QueuesFit(p)' /\ \A z \in Zombies : gameFlags'[p][z] = gameFlags[p][z]
<1>1. /\ UNCHANGED <<spokeConnected, outgoingWriteTick, unconfirmedReadTick, unconfirmedWriteTick>>
      /\ spokeConnected[p] /\ p \in InGame
  BY ReceiptKinds DEF SpokesInvariant, FrameFits
<1>2. outgoingReadTick[p] <= outgoingReadTick'[p]
  BY ReceivedGrows DEF SpokesInvariant
<1>3. outgoingReadTick'[p] \in Int
  <2>1. outgoingReadTick' = outgoingReadTick \/ outgoingReadTick' = [outgoingReadTick EXCEPT ![p] = Acked(p, f)]
    BY ReceiptKinds DEF SpokesInvariant, TakesView
  <2>2. outgoingReadTick'[p] \in {outgoingReadTick[p], Acked(p, f)}
    BY <2>1 DEF SpokesInvariant, GameInvariant, SpokesSound
  <2> QED BY <2>2, AckedBounds DEF SpokesInvariant
<1>4. /\ outgoingReadTick[p] \in Int /\ outgoingWriteTick[p] \in Int /\ OutgoingFlagsQueueSize \in Int
  BY SpokeNumbers DEF SpokesInvariant, GameInvariant
<1>5. QueuesFit(p)'
  BY <1>1, <1>2, <1>3, <1>4 DEF QueuesFit
<1>6. ASSUME NEW z \in Zombies PROVE gameFlags'[p][z] = gameFlags[p][z]
  <2>1. z \in Players /\ z # p /\ gameFlags = [r \in Players |-> gameFlags[r]]
    BY <1>1, SpokeConstants DEF InGame, SpokesInvariant, GameInvariant, SpokesSound
  <2>2. CASE TakesNothing(p)
    BY <2>2 DEF TakesNothing
  <2>3. CASE TakesItsOwn(p, f)
    BY <2>1, <2>3 DEF TakesItsOwn, ReceiveNoFlags
  <2>4. ASSUME NEW start, NEW stop, TakesFlags(p, f, start, stop) PROVE gameFlags'[p][z] = gameFlags[p][z]
    <3> DEFINE taken == Larger(stop - Larger(smallestUnreceivedTick[p], StartingTick), 0)
    <3>1. \/ UNCHANGED gameFlags
          \/ gameFlags' = [gameFlags EXCEPT ![p] =
               [q \in Players |-> IF q \in Zombies THEN @[q]
                  ELSE @[q] \o [k \in 1 .. taken |-> TakenFlags(p, f, q, Larger(smallestUnreceivedTick[p], StartingTick) + k - 1)]]]
      BY <2>4 DEF TakesFlags, ReceiveFlags, receivedVars
    <3> HIDE DEF taken
    <3> QED BY <2>1, <3>1
  <2> QED BY <2>2, <2>3, <2>4, ReceiptKinds DEF SpokesInvariant
<1> QED BY <1>5, <1>6

\* A machine left alone by a step keeps its queues.
LEMMA OtherKeepsQueues ==
  ASSUME NEW r \in Players, SameMachine(r), outgoingReadTick'[r] = outgoingReadTick[r], QueuesFit(r)
  PROVE  QueuesFit(r)'
<1>1. Unconfirmed(r)' = Unconfirmed(r)
  BY DEF SameMachine, Unconfirmed
<1>2. \A q \in Players : GameWriteTick(r, q)' = GameWriteTick(r, q)
  BY DEF SameMachine, GameWriteTick
<1> QED BY <1>1, <1>2 DEF SameMachine, QueuesFit, QueuesEnd, InGame

LEMMA QueuesStep ==
  ASSUME ~Standalone, SpokesInvariant, SpokesInvariant', MachinesInvariant, QueuesInvariant, StartingTick <= Horizon,
         [GameNext]_gameVars
  PROVE  QueuesInvariant'
<1>1. CASE HubAction \/ NoAction
  <2>1. UNCHANGED spokeVars
    BY <1>1 DEF HubAction, NoAction
  <2>2. ASSUME NEW r \in Players PROVE SameMachine(r) /\ outgoingReadTick'[r] = outgoingReadTick[r]
    BY <2>1 DEF SameMachine, spokeVars, spokeQueueVars, receivedVars
  <2>3. \A r \in InGame : QueuesFit(r)'
    BY <2>2, OtherKeepsQueues DEF QueuesInvariant, InGame
  <2>4. ZombiesIdle'
    BY <2>1 DEF QueuesInvariant, ZombiesIdle, spokeVars, spokeQueueVars, receivedVars
  <2>5. ASSUME NEW t \in Ticks PROVE madeUp'[t] \subseteq Players
    <3>1. madeUp' = madeUp \/ madeUp'[t] = madeUp[t] \cup playerReflectedFlags'[t]
      BY <1>1 DEF HubAction, NoAction, RemembersMadeUp
    <3>2. playerReflectedFlags'[t] \subseteq Players
      BY DEF SpokesInvariant, GameInvariant, HubInvariant, TypeOK
    <3> QED BY <3>1, <3>2 DEF QueuesInvariant
  <2> QED BY <2>3, <2>4, <2>5 DEF QueuesInvariant, InGame
<1>2. ASSUME madeUp' = madeUp, NEW p \in Players,
             OwnStep(p) \/ \E k \in DOMAIN toSpoke[p] : SpokeReceives(p, toSpoke[p][k])
      PROVE  QueuesInvariant'
  <2>1. \A k \in DOMAIN toSpoke[p] : /\ FrameToSpokeSound(p, toSpoke[p][k]) /\ FrameDecided(p, toSpoke[p][k])
                                     /\ FrameFits(p, toSpoke[p][k])
    BY DEF SpokesInvariant, GameInvariant, WiresSound, LockstepInvariant, WiresDecided, DeathsInvariant, FramesFit
  <2>2. OwnStep(p) \/ \E f : /\ FrameToSpokeSound(p, f) /\ FrameDecided(p, f) /\ FrameFits(p, f)
                             /\ SpokeReceives(p, f)
    BY <1>2, <2>1
  <2>3. p \in InGame
    <3>1. spokeActive[p]
      BY <2>2 DEF OwnStep, SpokeTick, SpokeGivesUp, ForgetConfirmed, GameAdvances, SpokeCleanup, SpokeReceives, Running
    <3> QED BY <3>1 DEF SpokesInvariant, LinksInvariant, ZombiesRest, InGame
  <2>4. ASSUME NEW r \in Players, r # p PROVE SameMachine(r) /\ outgoingReadTick'[r] = outgoingReadTick[r]
    <3>1. SameMachine(r)
      BY <2>2, <2>4, OthersUntouched DEF SpokesInvariant, LinksInvariant
    <3>2. CASE OwnStep(p)
      BY <3>1, <3>2, OwnStepGrows DEF SpokesInvariant, LinksInvariant
    <3>3. ASSUME NEW f, FrameToSpokeSound(p, f), FrameDecided(p, f), FrameFits(p, f), SpokeReceives(p, f)
          PROVE  outgoingReadTick'[r] = outgoingReadTick[r]
      <4>1. outgoingReadTick' = [outgoingReadTick EXCEPT ![p] = outgoingReadTick'[p]]
        BY <3>3, ReceivedGrows DEF SpokesInvariant
      <4> QED BY <2>4, <4>1 DEF SpokesInvariant, GameInvariant, SpokesSound
    <3> QED BY <2>2, <3>1, <3>2, <3>3
  <2>5. QueuesFit(p)' /\ \A z \in Zombies : gameFlags'[p][z] = gameFlags[p][z]
    <3>1. QueuesFit(p) /\ StaysInStep(p)
      BY <2>3 DEF QueuesInvariant, MachinesInvariant
    <3>2. CASE OwnStep(p)
      BY <2>3, <3>1, <3>2, OwnStepKeepsQueues
    <3>3. ASSUME NEW f, FrameToSpokeSound(p, f), FrameDecided(p, f), FrameFits(p, f), SpokeReceives(p, f)
          PROVE  QueuesFit(p)' /\ \A z \in Zombies : gameFlags'[p][z] = gameFlags[p][z]
      BY <3>1, <3>3, ReceiptKeepsQueues
    <3> QED BY <2>2, <3>2, <3>3
  <2>6. \A r \in InGame : QueuesFit(r)'
    BY <2>4, <2>5, OtherKeepsQueues DEF QueuesInvariant, InGame
  <2>7. ZombiesIdle'
    <3>1. \A z \in Zombies : z \in Players /\ z # p
      BY <2>3, SpokeConstants DEF InGame
    <3>2. ASSUME NEW z \in Zombies
          PROVE  /\ unconfirmedReadTick'[z] = StartingTick /\ unconfirmedWriteTick'[z] = StartingTick
                 /\ smallestUnconfirmedTick'[z] = StartingTick /\ outgoingReadTick'[z] = outgoingWriteTick'[z]
      BY <2>4, <3>1 DEF SameMachine, QueuesInvariant, ZombiesIdle
    <3>3. ASSUME NEW r \in Players, NEW q \in Players, r \in Zombies \/ q \in Zombies
          PROVE  gameFlags'[r][q] = << >>
      <4>1. gameFlags'[r][q] = gameFlags[r][q]
        BY <2>4, <2>5, <3>1, <3>3 DEF SameMachine
      <4> QED BY <3>3, <4>1 DEF QueuesInvariant, ZombiesIdle
    <3> QED BY <3>2, <3>3 DEF ZombiesIdle
  <2> QED BY <1>2, <2>6, <2>7 DEF QueuesInvariant, InGame
<1> QED BY <1>1, <1>2, StepKinds DEF SpokesInvariant, ReceiptAction, OwnAction

LEMMA QueuesBegin == ASSUME GameInit PROVE QueuesInvariant
<1>1. SpokeInit(connected) /\ madeUp = [t \in Ticks |-> {}]
  BY DEF GameInit
<1>2. FirstTick \in Int /\ StartingTick \in Int /\ OutgoingFlagsQueueSize \in Nat
  BY Constants, SpokeConstants
<1>3. ASSUME NEW p \in Players
      PROVE  /\ outgoingReadTick[p] = FirstTick /\ outgoingWriteTick[p] = FirstTick
             /\ unconfirmedReadTick[p] = StartingTick /\ unconfirmedWriteTick[p] = StartingTick
             /\ smallestUnconfirmedTick[p] = StartingTick /\ spokeConnected[p]
             /\ \A q \in Players : gameFlags[p][q] = << >>
  BY <1>1 DEF SpokeInit
<1>4. \A p \in InGame : QueuesFit(p)
  BY <1>2, <1>3 DEF QueuesFit, InGame
<1>5. ZombiesIdle
  BY <1>3, SpokeConstants DEF ZombiesIdle
<1>6. \A t \in Ticks : madeUp[t] \subseteq Players
  BY <1>1
<1> QED BY <1>4, <1>5, <1>6 DEF QueuesInvariant


\* All a machine keeps is of its type: its counters within the game, its queues of outgoing and
\* unconfirmed flags within their capacity, its action queues not beyond the game. All of GameTypeOK
\* but the last conjunct, which bounds the action queues by their capacity.
MachinesFit ==
  /\ MachinesTyped
  /\ outgoingReadTick \in [Players -> FirstTick .. Horizon]
  /\ outgoingWriteTick \in [Players -> FirstTick .. Horizon]
  /\ unconfirmedReadTick \in [Players -> StartingTick .. Horizon]
  /\ unconfirmedWriteTick \in [Players -> StartingTick .. Horizon]
  /\ smallestUnconfirmedTick \in [Players -> StartingTick .. Horizon]
  /\ smallestUnreceivedTick \in [Players -> FirstTick .. Horizon]
  /\ \A p \in Players :
       /\ outgoingWriteTick[p] - outgoingReadTick[p] \in 0 .. OutgoingFlagsQueueSize
       /\ unconfirmedWriteTick[p] - unconfirmedReadTick[p] \in 0 .. OutgoingFlagsQueueSize
  /\ \A p, q \in Players : Len(gameFlags[p][q]) <= Horizon - StartingTick
  /\ madeUp \in [Ticks -> SUBSET Players]

LEMMA QueuesAreFit ==
  ASSUME SpokesInvariant, MachinesInvariant, QueuesInvariant, StartingTick <= Horizon
  PROVE  MachinesFit
<1>1. SpokesSound /\ MachinesTyped
  BY DEF SpokesInvariant, GameInvariant, LinksInvariant
<1>2. StartingTick \in Int /\ Horizon \in Int /\ OutgoingFlagsQueueSize \in Nat
  BY Constants, SpokeConstants
<1>3. ASSUME NEW p \in InGame
      PROVE  /\ unconfirmedReadTick[p] \in StartingTick .. Horizon
             /\ unconfirmedWriteTick[p] \in StartingTick .. Horizon
             /\ smallestUnconfirmedTick[p] \in StartingTick .. Horizon
             /\ outgoingWriteTick[p] - outgoingReadTick[p] \in 0 .. OutgoingFlagsQueueSize
             /\ unconfirmedWriteTick[p] - unconfirmedReadTick[p] \in 0 .. OutgoingFlagsQueueSize
             /\ \A q \in InGame : Len(gameFlags[p][q]) <= Horizon - StartingTick
  <2>1. p \in Players /\ StaysInStep(p) /\ QueuesFit(p)
    BY <1>3 DEF InGame, MachinesInvariant, QueuesInvariant
  <2>2. QueuesEnd(p)
    BY <2>1, <1>3, ConnectedQueuesEnd DEF QueuesFit
  <2>3. /\ outgoingReadTick[p] \in Int /\ outgoingWriteTick[p] \in Int /\ outgoingWriteTick[p] <= Horizon
        /\ unconfirmedReadTick[p] \in Int /\ unconfirmedWriteTick[p] \in Int
        /\ smallestUnconfirmedTick[p] \in Int /\ outgoingReadTick[p] <= outgoingWriteTick[p]
    BY <1>1, <2>1, SpokeNumbers DEF SpokesSound
  <2>4. /\ unconfirmedWriteTick[p] = Larger(outgoingWriteTick[p], StartingTick)
        /\ StartingTick <= unconfirmedReadTick[p] /\ unconfirmedReadTick[p] <= unconfirmedWriteTick[p]
    BY <2>1 DEF StaysInStep, QueuesAgree
  <2>5. /\ outgoingWriteTick[p] - outgoingReadTick[p] <= OutgoingFlagsQueueSize
        /\ unconfirmedWriteTick[p] - unconfirmedReadTick[p] <= OutgoingFlagsQueueSize
    BY <2>1 DEF QueuesFit
  <2>6. unconfirmedWriteTick[p] <= Horizon /\ StartingTick <= unconfirmedWriteTick[p]
    BY <1>2, <2>3, <2>4 DEF Larger
  <2>7. StartingTick <= smallestUnconfirmedTick[p] /\ smallestUnconfirmedTick[p] <= Horizon
    BY <2>2 DEF QueuesEnd
  <2>8. ASSUME NEW q \in InGame PROVE Len(gameFlags[p][q]) <= Horizon - StartingTick
    <3>1. StartingTick + Len(gameFlags[p][q]) <= Horizon
      BY <2>2 DEF QueuesEnd, GameWriteTick
    <3>2. Len(gameFlags[p][q]) \in Nat
      BY <1>1, <2>1, SpokeNumbers DEF InGame
    <3>3. StartingTick \in Int /\ Horizon \in Int
      BY <1>2
    <3> QED BY <3>1, <3>2, <3>3
  <2>9. /\ unconfirmedReadTick[p] \in StartingTick .. Horizon
        /\ unconfirmedWriteTick[p] \in StartingTick .. Horizon
    BY <1>2, <2>3, <2>4, <2>6
  <2>10. smallestUnconfirmedTick[p] \in StartingTick .. Horizon
    BY <1>2, <2>3, <2>7
  <2>11. outgoingWriteTick[p] - outgoingReadTick[p] \in 0 .. OutgoingFlagsQueueSize
    BY <1>2, <2>3, <2>5
  <2>12. unconfirmedWriteTick[p] - unconfirmedReadTick[p] \in 0 .. OutgoingFlagsQueueSize
    BY <1>2, <2>3, <2>4, <2>5
  <2> QED BY <2>8, <2>9, <2>10, <2>11, <2>12
<1>4. ASSUME NEW z \in Players, z \in Zombies
      PROVE  /\ unconfirmedReadTick[z] \in StartingTick .. Horizon
             /\ unconfirmedWriteTick[z] \in StartingTick .. Horizon
             /\ smallestUnconfirmedTick[z] \in StartingTick .. Horizon
             /\ outgoingWriteTick[z] - outgoingReadTick[z] \in 0 .. OutgoingFlagsQueueSize
             /\ unconfirmedWriteTick[z] - unconfirmedReadTick[z] \in 0 .. OutgoingFlagsQueueSize
  <2>1. /\ unconfirmedReadTick[z] = StartingTick /\ unconfirmedWriteTick[z] = StartingTick
        /\ smallestUnconfirmedTick[z] = StartingTick /\ outgoingReadTick[z] = outgoingWriteTick[z]
    BY <1>4 DEF QueuesInvariant, ZombiesIdle
  <2>2. outgoingWriteTick[z] \in Int
    BY <1>1, SpokeNumbers
  <2> QED BY <1>2, <2>1, <2>2
<1>5. \A p \in Players : p \in InGame \/ p \in Zombies
  BY DEF InGame
<1>6. ASSUME NEW p \in Players, NEW q \in Players
      PROVE  Len(gameFlags[p][q]) <= Horizon - StartingTick
  <2>1. CASE p \in InGame /\ q \in InGame
    BY <1>3, <2>1
  <2>2. CASE p \in Zombies \/ q \in Zombies
    <3>1. Len(gameFlags[p][q]) = 0
      BY <2>2 DEF QueuesInvariant, ZombiesIdle
    <3> QED BY <1>2, <3>1
  <2> QED BY <1>5, <2>1, <2>2
<1>7. /\ unconfirmedReadTick \in [Players -> StartingTick .. Horizon]
      /\ unconfirmedWriteTick \in [Players -> StartingTick .. Horizon]
      /\ smallestUnconfirmedTick \in [Players -> StartingTick .. Horizon]
  BY <1>1, <1>3, <1>4, <1>5 DEF SpokesSound
<1>8. \A p \in Players :
        /\ outgoingWriteTick[p] - outgoingReadTick[p] \in 0 .. OutgoingFlagsQueueSize
        /\ unconfirmedWriteTick[p] - unconfirmedReadTick[p] \in 0 .. OutgoingFlagsQueueSize
  BY <1>3, <1>4, <1>5
<1>9. madeUp \in [Ticks -> SUBSET Players]
  <2>1. madeUp = [t \in Ticks |-> madeUp[t]] /\ \A t \in Ticks : madeUp[t] \subseteq Players
    BY DEF SpokesInvariant, LockstepInvariant, HubRemembers, QueuesInvariant
  <2> QED BY <2>1
<1> QED BY <1>1, <1>6, <1>7, <1>8, <1>9 DEF MachinesFit, SpokesSound

\* Whatever the network does, the counters of every machine stay within the game, and its queues of
\* outgoing and of unconfirmed flags never exceed their capacity (lines 786-834 look for room before
\* they make flags).
THEOREM MachinesStayFit ==
  ASSUME ~Standalone, StartingTick <= Horizon PROVE GameSpec => []MachinesFit
<1>1. SpokesInvariant /\ SpokesInvariant' /\ MachinesInvariant /\ QueuesInvariant /\ [GameNext]_gameVars => QueuesInvariant'
  BY QueuesStep
<1>2. GameInit => QueuesInvariant
  BY QueuesBegin
<1>3. GameSpec => []SpokesInvariant
  BY SpokesSafe
<1>4. SpokesInvariant /\ MachinesInvariant /\ QueuesInvariant => MachinesFit
  BY QueuesAreFit
<1> QED BY <1>1, <1>2, <1>3, <1>4, MachinesStayInStep, PTL DEF GameSpec

\* The type invariant of the game holds, in a game that is no longer than the action queues: a spoke
\* just cut off moves its unconfirmed flags into its action queue without looking for room (line
\* 816), so that the capacity of the action queues bounds them only then.
THEOREM GameIsTyped ==
  ASSUME ~Standalone, StartingTick <= Horizon, Horizon - StartingTick <= ActionQueueSize
  PROVE  GameSpec => []GameTypeOK
<1>1. SpokesInvariant /\ MachinesFit => GameTypeOK
  <2> SUFFICES ASSUME SpokesInvariant, MachinesFit PROVE GameTypeOK
    OBVIOUS
  <2>1. \A p, q \in Players : Len(gameFlags[p][q]) - gameTicks[p] <= ActionQueueSize
    <3> TAKE p, q \in Players
    <3>1. Len(gameFlags[p][q]) <= Horizon - StartingTick
      BY DEF MachinesFit
    <3>2. gameTicks[p] \in Nat /\ Len(gameFlags[p][q]) \in Nat
      BY SpokeNumbers DEF SpokesInvariant, GameInvariant, SpokesSound
    <3>3. Horizon \in Int /\ StartingTick \in Int /\ ActionQueueSize \in Int
      BY Constants, SpokeConstants
    <3> QED BY <3>1, <3>2, <3>3
  <2> QED BY <2>1 DEF GameTypeOK, SpokeTypeOK, MachinesFit, MachinesTyped
<1>2. GameSpec => []SpokesInvariant
  BY SpokesSafe
<1> QED BY <1>1, <1>2, MachinesStayFit, PTL


-----------------------------------------------------------------------------
(* The capacity of the action queues.                                        *)

\* As long as p is in company, what it has received fits into its action queues: it takes no more
\* ticks of a packet than the fullest of them has room for.
RoomTaken(p) == InCompany(p) => FirstDue(p) - StartingTick <= ActionQueueSize + gameTicks[p]

RoomWasTaken == \A p \in InGame : RoomTaken(p)

\* What ends within the room of the fullest queue fits into all that end together.
LEMMA RoomIsEnough ==
  ASSUME NEW received \in Int, NEW stop \in Int, NEW space \in Int, NEW length \in Int, NEW ticks \in Int,
         NEW size \in Int, NEW starting \in Int,
         space = size - (length - ticks), starting + length = Larger(received, starting),
         stop <= received + space, Larger(received, starting) - starting <= size + ticks
  PROVE  Larger(Larger(received, stop), starting) - starting <= size + ticks
BY DEF Larger

LEMMA ReceiptTakesRoom ==
  ASSUME SpokesInvariant, MachinesInvariant, NEW p \in Players, RoomTaken(p), NEW f, FrameToSpokeSound(p, f),
         FrameDecided(p, f), FrameFits(p, f), SpokeReceives(p, f)
  PROVE  RoomTaken(p)'
<1>1. p \in InGame /\ SpokesSound /\ stillConnected = [r \in Players |-> stillConnected[r]]
  BY ReceivedGrows DEF SpokesInvariant, GameInvariant, SpokesSound
<1>2. spokeConnected[p] /\ gameTicks' = gameTicks
  BY ReceiptKinds DEF SpokesInvariant
<1>3. InCompany(p)' => InCompany(p)
  <2>1. stillConnected' = stillConnected \/ stillConnected' = [stillConnected EXCEPT ![p] = StillConnected(p, f)]
    BY ReceiptKinds DEF SpokesInvariant, TakesView
  <2>2. stillConnected'[p] \subseteq stillConnected[p]
    BY <1>1, <2>1 DEF StillConnected
  <2> QED BY <2>2 DEF InCompany
<1>4. CASE TakesNothing(p)
  BY <1>2, <1>3, <1>4 DEF RoomTaken, FirstDue, TakesNothing
<1>5. CASE TakesView(p, f) /\ TakesItsOwn(p, f)
  <2>1. stillConnected'[p] = StillConnected(p, f)
    BY <1>1, <1>5 DEF TakesView
  <2>2. ~InCompany(p)'
    BY <1>5, <2>1 DEF TakesItsOwn, WeAreAlone, InCompany
  <2> QED BY <2>2 DEF RoomTaken
<1>6. ASSUME NEW start \in Int, NEW stop \in Int, TakesFlags(p, f, start, stop), InCompany(p)
      PROVE  RoomTaken(p)'
  <2> DEFINE received == smallestUnreceivedTick[p]
  <2>1. CASE UNCHANGED smallestUnreceivedTick
    BY <1>2, <1>3, <2>1 DEF RoomTaken, FirstDue
  <2>2. CASE smallestUnreceivedTick' = [smallestUnreceivedTick EXCEPT ![p] = Larger(received, stop)]
    <3>1. smallestUnreceivedTick'[p] = Larger(received, stop)
      BY <1>1, <2>2 DEF SpokesSound
    <3>2. PICK q \in Players \ Zombies : QueueSpace(p) = ActionQueueSize - (Len(gameFlags[p][q]) - gameTicks[p])
      BY <1>1, QueueSpaceOfSomebody
    <3>3. StartingTick + Len(gameFlags[p][q]) = FirstDue(p)
      <4>1. ExpectsItsOwn(p) /\ QueuesAgree(p)
        BY <1>1, <1>2 DEF MachinesInvariant, StaysInStep
      <4>2. ~Alone(p)
        BY <1>6, <4>1 DEF Alone, QueuesAgree, InCompany, InGame
      <4> QED BY <3>2, <4>1, <4>2 DEF ExpectsItsOwn, GameWriteTick, InGame
    <3>4. received \in Int /\ StartingTick \in Int /\ Len(gameFlags[p][q]) \in Int
      BY <3>2, StepNumbers DEF SpokesInvariant
    <3>5. gameTicks[p] \in Int /\ ActionQueueSize \in Int /\ QueueSpace(p) \in Int
      BY <1>1, SpokeNumbers, QueueSpaceIsNumber
    <3>6. stop <= received + QueueSpace(p)
      BY <1>6 DEF TakesFlags
    <3>7. Larger(received, StartingTick) - StartingTick <= ActionQueueSize + gameTicks[p]
      BY <1>6 DEF RoomTaken, FirstDue
    <3> HIDE DEF received
    <3>8. Larger(Larger(received, stop), StartingTick) - StartingTick <= ActionQueueSize + gameTicks[p]
      <4>1. StartingTick + Len(gameFlags[p][q]) = Larger(received, StartingTick)
        BY <3>3 DEF FirstDue, received
      <4> QED BY <3>2, <3>4, <3>5, <3>6, <3>7, <4>1, RoomIsEnough
    <3> QED BY <1>2, <3>1, <3>8 DEF RoomTaken, FirstDue
  <2> QED BY <1>6, <2>1, <2>2 DEF TakesFlags, ReceiveFlags, receivedVars
<1>7. CASE ~InCompany(p)'
  BY <1>7 DEF RoomTaken
<1> QED BY <1>3, <1>4, <1>5, <1>6, <1>7, ReceiptKinds DEF SpokesInvariant

LEMMA RoomStep ==
  ASSUME ~Standalone, SpokesInvariant, MachinesInvariant, RoomWasTaken, [GameNext]_gameVars
  PROVE  RoomWasTaken'
<1>1. CASE HubAction \/ NoAction
  BY <1>1 DEF HubAction, NoAction, spokeVars, viewVars, receivedVars, RoomWasTaken, RoomTaken, InCompany, FirstDue,
              InGame
<1>2. ASSUME NEW p \in Players, ReceiptAction(p) \/ OwnAction(p)
      PROVE  RoomWasTaken'
  <2>1. \A k \in DOMAIN toSpoke[p] : /\ FrameToSpokeSound(p, toSpoke[p][k]) /\ FrameDecided(p, toSpoke[p][k])
                                     /\ FrameFits(p, toSpoke[p][k])
    BY DEF SpokesInvariant, GameInvariant, WiresSound, LockstepInvariant, WiresDecided, DeathsInvariant, FramesFit
  <2>2. OwnStep(p) \/ \E f : /\ FrameToSpokeSound(p, f) /\ FrameDecided(p, f) /\ FrameFits(p, f)
                             /\ SpokeReceives(p, f)
    BY <1>2, <2>1 DEF ReceiptAction, OwnAction
  <2>3. gameTicks' = gameTicks \/ (OwnStep(p) /\ gameTicks' = [gameTicks EXCEPT ![p] = @ + 1])
    <3>1. CASE OwnStep(p)
      BY <3>1 DEF OwnStep, SpokeTick, ConnectedTick, CutOffTick, SpokeGivesUp, ForgetConfirmed, GameAdvances,
                  SpokeCleanup
    <3>2. CASE \E f : FrameToSpokeSound(p, f) /\ FrameDecided(p, f) /\ SpokeReceives(p, f)
      BY <3>2, ReceiptKinds DEF SpokesInvariant
    <3> QED BY <2>2, <3>1, <3>2
  <2>4. ASSUME NEW r \in InGame, r # p PROVE RoomTaken(r)'
    <3>1. r \in Players /\ gameTicks'[r] = gameTicks[r]
      BY <2>3, <2>4 DEF InGame, SpokesInvariant, GameInvariant, SpokesSound
    <3>2. SameMachine(r) /\ stillConnected'[r] = stillConnected[r]
      BY <2>2, <2>4, <3>1, OthersUntouched DEF SpokesInvariant, LinksInvariant
    <3> QED BY <3>1, <3>2 DEF RoomWasTaken, RoomTaken, InCompany, FirstDue, SameMachine
  <2>5. p \in InGame => RoomTaken(p)'
    <3> SUFFICES ASSUME p \in InGame PROVE RoomTaken(p)'
      OBVIOUS
    <3>1. RoomTaken(p)
      BY DEF RoomWasTaken
    <3>2. CASE OwnStep(p)
      <4>1. UNCHANGED <<smallestUnreceivedTick, stillConnected>>
        BY <3>2, OwnStepGrows DEF SpokesInvariant, LinksInvariant
      <4>2. gameTicks[p] \in Nat /\ (gameTicks'[p] = gameTicks[p] \/ gameTicks'[p] = gameTicks[p] + 1)
        BY <2>3 DEF SpokesInvariant, GameInvariant, SpokesSound
      <4>3. FirstDue(p) \in Int /\ StartingTick \in Int /\ ActionQueueSize \in Int
        BY StepNumbers, SpokeConstants DEF SpokesInvariant
      <4>4. FirstDue(p)' = FirstDue(p) /\ (InCompany(p)' => InCompany(p))
        BY <4>1 DEF FirstDue, InCompany
      <4> QED BY <3>1, <4>2, <4>3, <4>4 DEF RoomTaken
    <3>3. ASSUME NEW f, FrameToSpokeSound(p, f), FrameDecided(p, f), FrameFits(p, f), SpokeReceives(p, f)
          PROVE  RoomTaken(p)'
      BY <3>1, <3>3, ReceiptTakesRoom
    <3> QED BY <2>2, <3>2, <3>3
  <2> QED BY <2>4, <2>5 DEF RoomWasTaken, InGame
<1> QED BY <1>1, <1>2, StepKinds DEF SpokesInvariant

LEMMA RoomBegins == ASSUME GameInit PROVE RoomWasTaken
<1>1. SpokeInit(connected)
  BY DEF GameInit
<1>2. ASSUME NEW p \in InGame PROVE smallestUnreceivedTick[p] = FirstTick /\ gameTicks[p] = 0
  BY <1>1, <1>2 DEF SpokeInit, InGame
<1>3. FirstTick <= StartingTick /\ FirstTick \in Int /\ StartingTick \in Int /\ ActionQueueSize \in Nat
  BY HubConstants, SpokeConstants DEF FirstTick
<1> QED BY <1>2, <1>3 DEF RoomWasTaken, RoomTaken, FirstDue, Larger

\* A machine in touch with the hub, and in company, never holds more ticks in an action queue than
\* fit (the loop of lines 511-605 stops where the fullest one is full), however long the game is and
\* however slowly it is played.
ActionQueuesHold ==
  \A p \in InGame : spokeConnected[p] /\ InCompany(p) =>
    \A q \in InGame : Len(gameFlags[p][q]) - gameTicks[p] <= ActionQueueSize

THEOREM QueuesHoldInCompany == ASSUME ~Standalone PROVE GameSpec => []ActionQueuesHold
<1>1. SpokesInvariant /\ MachinesInvariant /\ RoomWasTaken => ActionQueuesHold
  <2> SUFFICES ASSUME SpokesInvariant, MachinesInvariant, RoomWasTaken, NEW p \in InGame, spokeConnected[p],
                      InCompany(p), NEW q \in InGame
               PROVE  Len(gameFlags[p][q]) - gameTicks[p] <= ActionQueueSize
    BY DEF ActionQueuesHold
  <2>1. StartingTick + Len(gameFlags[p][q]) = FirstDue(p)
    <3>1. ExpectsItsOwn(p) /\ QueuesAgree(p)
      BY DEF MachinesInvariant, StaysInStep
    <3>2. ~Alone(p)
      BY <3>1 DEF Alone, QueuesAgree, InCompany, InGame
    <3> QED BY <3>1, <3>2 DEF ExpectsItsOwn, GameWriteTick
  <2>2. FirstDue(p) \in Int /\ StartingTick \in Int /\ Len(gameFlags[p][q]) \in Int
    BY StepNumbers DEF SpokesInvariant, InGame
  <2>3. gameTicks[p] \in Int /\ ActionQueueSize \in Int
    BY SpokeNumbers DEF SpokesInvariant, GameInvariant, InGame
  <2>4. FirstDue(p) - StartingTick <= ActionQueueSize + gameTicks[p]
    BY DEF RoomWasTaken, RoomTaken
  <2> QED BY <2>1, <2>2, <2>3, <2>4
<1>2. SpokesInvariant /\ MachinesInvariant /\ RoomWasTaken /\ [GameNext]_gameVars => RoomWasTaken'
  BY RoomStep
<1>3. GameInit => RoomWasTaken
  BY RoomBegins
<1>4. GameSpec => []SpokesInvariant
  BY SpokesSafe
<1> QED BY <1>1, <1>2, <1>3, <1>4, MachinesStayInStep, PTL DEF GameSpec
=============================================================================
