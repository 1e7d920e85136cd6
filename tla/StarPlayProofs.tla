--------------------------- MODULE StarPlayProofs ----------------------------
(***************************************************************************)
(* What the machines of a networked game play, those included that find    *)
(* themselves alone in it: the game implements the lockstep game, and what *)
(* is proved of it holds of the game whose hub asks for adjustments.       *)
(***************************************************************************)
EXTENDS StarTiming, StarSpokesProofs

-----------------------------------------------------------------------------
(* The invariant of a game without bandwidth reduction.                      *)

\* Where what the hub has sent to p ends, or will have ended.
Wanted(p) == IF p \in connected THEN smallestUnsentTick ELSE netDeadTick[p]

\* The action queues of a machine in company have room for all that the hub has sent to it
\* (theSmallestQueueSpace of the spoke).
Room(p) == Wanted(p) - smallestUnreceivedTick[p] <= QueueSpace(p)
QueuesHaveRoom == \A p \in InGame : InCompany(p) /\ spokeConnected[p] => Room(p)

\* A frame for p begins no later than what p lacks, and brings with a death the tick before it.
FrameComplete(p, f) ==
  /\ DOMAIN f.flags # {} => \E t \in DOMAIN f.flags : t <= smallestUnreceivedTick[p]
  /\ \A death \in f.deaths : death[2] <= smallestUnreceivedTick[p] \/ death[2] - 1 \in DOMAIN f.flags

FramesComplete == \A p \in Players : \A k \in DOMAIN toSpoke[p] : FrameComplete(p, toSpoke[p][k])

\* p is behind the hub by no more than the hub's queues hold.
LagsWithinQueue == \A p \in InGame : Wanted(p) - smallestUnreceivedTick[p] <= QueueSize

\* Deaths are booked for ticks that are not complete yet.
DeathsAreLate == \A q \in Players : netDeadTick[q] <= smallestIncompleteTick

\* A dead player who is about to go on alone goes no further than to the tick of its death.
DeadStop ==
  \A p \in InGame : ToldAlone(p) /\ p \notin connected =>
    /\ outgoingReadTick[p] <= netDeadTick[p]
    /\ \A k \in DOMAIN toSpoke[p] : toSpoke[p][k].ack <= netDeadTick[p]

\* With the news of a death p has taken the ticks before it.
DeathsTaken ==
  \A p \in InGame : \A q \in InGame \ {p} : q \notin stillConnected[p] => netDeadTick[q] <= smallestUnreceivedTick[p]

\* In touch with the hub p plays what its player has done.
PlaysItsOwn(p) ==
  spokeConnected[p] =>
    \A k \in 1 .. Len(gameFlags[p][p]) : gameFlags[p][p][k] = Real(StartingTick + k - 1)

\* The queues of p go at least as far as what it has received, which is settled.
HasReceived(p, q) ==
  /\ FirstDue(p) <= GameWriteTick(p, q)
  /\ \A t \in StartingTick .. smallestUnreceivedTick[p] - 1 :
       gameFlags[p][q][t - StartingTick + 1] = Decided(q, t)

PlayInvariant ==
  /\ FramesComplete /\ LagsWithinQueue /\ DeathsAreLate /\ DeadStop /\ DeathsTaken
  /\ \A p \in InGame : PlaysItsOwn(p) /\ \A q \in InGame : HasReceived(p, q)

\* What p has received was sent to it, and is complete.
LEMMA ReceivedIsComplete ==
  ASSUME GameInvariant, NEW p \in Players, NEW t \in StartingTick .. smallestUnreceivedTick[p] - 1
  PROVE  t \in Ticks /\ t \in Int /\ t < smallestIncompleteTick
<1>1. /\ smallestUnsentTick \in Int /\ smallestIncompleteTick \in Int
      /\ smallestUnsentTick <= smallestIncompleteTick /\ smallestIncompleteTick <= Horizon
      /\ smallestUnreceivedTick[p] \in Int /\ smallestUnreceivedTick[p] <= smallestUnsentTick
  BY Constants DEF GameInvariant, HubInvariant, TypeOK, QueuesLineUp, SpokesSound
<1>2. StartingTick \in Int /\ FirstTick <= StartingTick
  BY Constants, HubConstants DEF FirstTick
<1> QED BY <1>1, <1>2, Constants

-----------------------------------------------------------------------------
(* The hub.                                                                  *)

\* Without bandwidth reduction a frame holds everything that has not been acknowledged.
LEMMA SentIsComplete ==
  ASSUME ~BandwidthReduction, HubInvariant, HubBooks, AcksAreTrue, SpokesSound, DeathsAreLate,
         NEW i \in connected, NEW large, NEW a
  PROVE  FrameComplete(i, HubFrame(i, large, a))
<1> DEFINE acked    == smallestUnacknowledgedTick[i]
           ticks    == acked .. smallestIncompleteTick - 1
           reflects == \E t \in ticks : i \in playerReflectedFlags[t]
           sent(t)  == {j \in Players : Contributes(j, t) /\ (j = i => reflects)}
           flags(t) == [j \in sent(t) |-> IF j \in playerReflectedFlags[t] THEN MadeUp(t) ELSE Real(t)]
           S        == {u \in ticks : sent(u) # {}}
           f        == HubFrame(i, large, a)
<1>1. UpdateRange(i, large) = <<acked, smallestIncompleteTick>>
  BY DEF UpdateRange, ReducesBandwidth
<1>2. UpdateRange(i, large)[1] = acked /\ UpdateRange(i, large)[2] = smallestIncompleteTick
  BY <1>1
<1>3. /\ f.flags = [t \in S |-> flags(t)]
      /\ f.deaths = {<<j, netDeadTick[j]>> : j \in {k \in Players : acked <= netDeadTick[k]}}
  BY <1>2 DEF HubFrame
<1>4. DOMAIN f.flags = S
  BY <1>3
<1>5. /\ i \in Players /\ acked \in Int /\ smallestIncompleteTick \in Int /\ FirstTick \in Int
      /\ FirstTick <= acked /\ smallestUnreceivedTick[i] \in Int /\ acked <= smallestUnreceivedTick[i]
      /\ netDeadTick[i] = FirstTick - 1 /\ \A j \in Players : netDeadTick[j] \in Int
  <2>1. i \in Players
    BY DEF HubInvariant, TypeOK
  <2>2. /\ acked \in FirstTick .. Horizon /\ smallestIncompleteTick \in Int
        /\ FirstTick \in Int /\ Horizon \in Int /\ smallestUnreceivedTick[i] \in Int
    BY <2>1, Constants DEF HubInvariant, TypeOK, SpokesSound
  <2>3. \A j \in Players : netDeadTick[j] \in Int
    BY Constants DEF HubInvariant, TypeOK
  <2>4. acked <= smallestUnreceivedTick[i] /\ netDeadTick[i] = FirstTick - 1
    BY DEF AcksAreTrue, HubBooks
  <2> QED BY <2>1, <2>2, <2>3, <2>4
<1> HIDE DEF f, acked, reflects
<1>6. ASSUME NEW u \in S PROVE acked \in S
  <2>1. u \in Int /\ acked <= u /\ u < smallestIncompleteTick
    BY <1>5
  <2>2. PICK j \in Players : Contributes(j, u) /\ (j = i => reflects)
    OBVIOUS
  <2>3. Contributes(j, acked)
    BY <1>5, <2>1, <2>2 DEF Contributes
  <2>4. acked \in ticks
    BY <1>5, <2>1
  <2> QED BY <2>2, <2>3, <2>4
<1>7. ASSUME NEW death \in f.deaths
      PROVE  death[2] <= smallestUnreceivedTick[i] \/ death[2] - 1 \in S
  <2>1. PICK j \in Players : death = <<j, netDeadTick[j]>> /\ acked <= netDeadTick[j]
    BY <1>3
  <2> DEFINE d == netDeadTick[j]
  <2>2. d \in Int /\ d <= smallestIncompleteTick /\ death[2] = d /\ acked <= d
    BY <1>5, <2>1 DEF DeathsAreLate
  <2>3. j # i
    BY <1>5, <2>1
  <2>4. Contributes(j, d - 1)
    BY <2>2 DEF Contributes
  <2> HIDE DEF d
  <2>5. ASSUME ~(d <= smallestUnreceivedTick[i]) PROVE d - 1 \in S
    <3>1. d - 1 \in ticks
      BY <1>5, <2>2, <2>5
    <3> QED BY <2>3, <2>4, <3>1
  <2> QED BY <2>2, <2>5
<1> HIDE DEF S
<1>8. DOMAIN f.flags # {} => \E t \in DOMAIN f.flags : t <= smallestUnreceivedTick[i]
  BY <1>4, <1>5, <1>6
<1> QED BY <1>4, <1>7, <1>8 DEF FrameComplete, f

SendsWhatIsComplete == \A i \in connected : \A large, a : FrameComplete(i, HubFrame(i, large, a))

LEMMA SentIsCompleteNext ==
  ASSUME ~BandwidthReduction
  PROVE  HubInvariant' /\ HubBooks' /\ AcksAreTrue' /\ SpokesSound' /\ DeathsAreLate' => SendsWhatIsComplete'
<1>1. HubInvariant /\ HubBooks /\ AcksAreTrue /\ SpokesSound /\ DeathsAreLate => SendsWhatIsComplete
  BY SentIsComplete DEF SendsWhatIsComplete
<1> QED BY <1>1, PTL

\* The hub's queues hold whatever a player in the game has not received.
LEMMA QueueReachesBack ==
  ASSUME HubInvariant, SpokesSound, AcksAreTrue, NEW p \in connected
  PROVE  smallestIncompleteTick <= smallestUnreceivedTick[p] + QueueSize
<1>1. p \in Players /\ p \in Booked /\ QueueSize \in Int
  BY Constants DEF HubInvariant, TypeOK, Booked
<1>2. /\ dispositionReadTick \in Int /\ dispositionWriteTick \in Int /\ smallestIncompleteTick \in Int
      /\ smallestUnacknowledgedTick[p] \in Int /\ smallestUnreceivedTick[p] \in Int
  BY <1>1, Constants DEF HubInvariant, TypeOK, SpokesSound
<1>3. /\ smallestIncompleteTick <= dispositionWriteTick
      /\ dispositionWriteTick <= dispositionReadTick + QueueSize
      /\ dispositionReadTick <= smallestUnacknowledgedTick[p]
  BY <1>1 DEF HubInvariant, QueuesLineUp
<1>4. smallestUnacknowledgedTick[p] <= smallestUnreceivedTick[p]
  BY DEF AcksAreTrue
<1> QED BY <1>1, <1>2, <1>3, <1>4

ReachesBack == \A p \in connected : smallestIncompleteTick <= smallestUnreceivedTick[p] + QueueSize

LEMMA QueueReachesBackNext == HubInvariant' /\ SpokesSound' /\ AcksAreTrue' => ReachesBack'
<1>1. HubInvariant /\ SpokesSound /\ AcksAreTrue => ReachesBack
  BY QueueReachesBack DEF ReachesBack
<1> QED BY <1>1, PTL

\* The hub books deaths and completes ticks; what it sends is complete.
LEMMA HubKeepsPlay ==
  ASSUME ~BandwidthReduction, SpokesInvariant, SpokesInvariant', PlayInvariant, HubAction
  PROVE  PlayInvariant'
<1>1. /\ UNCHANGED <<smallestUnreceivedTick, gameFlags, spokeConnected, stillConnected, outgoingReadTick>>
      /\ smallestIncompleteTick <= smallestIncompleteTick'
      /\ connected' \subseteq connected
      /\ GameInvariant /\ GameInvariant'
  BY DEF HubAction, HubMoves, spokeVars, viewVars, receivedVars, spokeQueueVars, SpokesInvariant
<1>2. /\ smallestUnsentTick \in Int /\ smallestIncompleteTick \in Int /\ smallestIncompleteTick' \in Int
      /\ smallestUnsentTick <= smallestIncompleteTick
      /\ \A q \in Players : netDeadTick[q] \in Int
  BY <1>1, Constants DEF GameInvariant, HubInvariant, TypeOK, QueuesLineUp
<1>3. \A q \in Players : \/ netDeadTick'[q] = netDeadTick[q] /\ (q \in connected => q \in connected')
                         \/ netDeadTick'[q] = smallestIncompleteTick /\ q \in connected
  BY DEF HubAction, HubMoves
<1>4. DeathsAreLate'
  <2>1. \A q \in Players : netDeadTick[q] <= smallestIncompleteTick
    BY DEF PlayInvariant, DeathsAreLate
  <2>2. ASSUME NEW q \in Players PROVE netDeadTick'[q] <= smallestIncompleteTick'
    BY <1>1, <1>2, <1>3, <2>1
  <2> QED BY <2>2 DEF DeathsAreLate
<1>5. SendsWhatIsComplete'
  BY <1>4, SentIsCompleteNext DEF SpokesInvariant, GameInvariant, LinksInvariant
<1>6. PICK large : \E asks : HubWires(large, asks)
  BY Zenon DEF HubAction
<1>7. PICK asks : HubWires(large, asks)
  BY <1>6
<1>8. HubSends => connected' = connected
  BY DEF HubAction, HubAdvances
<1>9. ASSUME NEW p \in Players
      PROVE  \/ toSpoke'[p] = toSpoke[p]
             \/ \E f : FrameComplete(p, f)' /\ p \in connected' /\ toSpoke'[p] = Sent(toSpoke[p], f)
  <2>1. CASE ~HubSends
    BY <1>7, <2>1 DEF HubWires
  <2>2. CASE HubSends
    <3> DEFINE b == IF p \in DOMAIN asks THEN asks[p] ELSE 0
               f == HubFrame(p, p \in large, b)
    <3>1. toSpoke'[p] = IF p \in connected /\ p \in addressKnown THEN Sent(toSpoke[p], f') ELSE toSpoke[p]
      BY <1>7, <2>2 DEF HubWires
    <3>2. ASSUME p \in connected' PROVE FrameComplete(p, f)'
      BY <1>5, <3>2 DEF SendsWhatIsComplete
    <3> HIDE DEF f
    <3>3. ASSUME p \in connected' PROVE \E g : FrameComplete(p, g)' /\ g = f'
      BY <3>2, <3>3 DEF FrameComplete
    <3> QED BY <1>8, <2>2, <3>1, <3>3
  <2> QED BY <2>1, <2>2
<1>10. FramesComplete'
  <2>1. ASSUME NEW p \in Players, NEW k \in DOMAIN toSpoke'[p] PROVE FrameComplete(p, toSpoke[p][k])'
    <3>1. \A j \in DOMAIN toSpoke[p] : \E g : g = toSpoke[p][j] /\ FrameComplete(p, g)'
      BY <1>1 DEF PlayInvariant, FramesComplete, FrameComplete
    <3>2. CASE toSpoke'[p] = toSpoke[p]
      BY <2>1, <3>1, <3>2 DEF FrameComplete
    <3>3. ASSUME NEW f, FrameComplete(p, f)', toSpoke'[p] = Sent(toSpoke[p], f)
          PROVE  FrameComplete(p, toSpoke[p][k])'
      <4>1. IsSequence(toSpoke[p])
        BY <1>1 DEF GameInvariant, WiresSound
      <4>2. toSpoke'[p][k] = f \/ \E j \in DOMAIN toSpoke[p] : toSpoke'[p][k] = toSpoke[p][j]
        BY <2>1, <3>3, <4>1, OneMoreSent
      <4> QED BY <3>1, <3>3, <4>2 DEF FrameComplete
    <3> QED BY <1>9, <3>2, <3>3
  <2> QED BY <2>1 DEF FramesComplete
<1>11. DeadStop'
  <2>1. ASSUME NEW p \in InGame, ToldAlone(p)', p \notin connected'
        PROVE  /\ outgoingReadTick[p] <= netDeadTick'[p]
               /\ \A k \in DOMAIN toSpoke'[p] : toSpoke'[p][k].ack <= netDeadTick'[p]
    <3>1. p \in Players
      BY DEF InGame
    <3>2. toSpoke'[p] = toSpoke[p]
      BY <1>9, <2>1, <3>1
    <3>3. ToldAlone(p)
      BY <1>1, <2>1, <3>2 DEF ToldAlone
    <3>4. CASE p \notin connected
      <4>1. netDeadTick'[p] = netDeadTick[p]
        BY <1>3, <3>1, <3>4
      <4> QED BY <3>2, <3>3, <3>4, <4>1 DEF PlayInvariant, DeadStop
    <3>5. CASE p \in connected
      <4>1. netDeadTick'[p] = smallestIncompleteTick
        BY <1>3, <2>1, <3>1, <3>5
      <4>2. /\ outgoingReadTick[p] <= smallestUnsentTick
            /\ \A k \in DOMAIN toSpoke[p] : toSpoke[p][k].ack <= smallestUnsentTick
        BY <1>1, <3>1, <3>3 DEF GameInvariant, AloneIsSent
      <4>3. outgoingReadTick[p] \in Int /\ \A k \in DOMAIN toSpoke[p] : toSpoke[p][k].ack \in Int
        <5>1. outgoingReadTick[p] \in Int /\ FirstTick \in Int /\ flagsWriteTick[p] \in Int
          BY <1>1, <3>1, Constants DEF GameInvariant, SpokesSound, HubInvariant, TypeOK
        <5>2. \A k \in DOMAIN toSpoke[p] : toSpoke[p][k].ack \in FirstTick .. flagsWriteTick[p]
          BY <1>1, <3>1 DEF GameInvariant, WiresSound, FrameToSpokeSound
        <5> QED BY <5>1, <5>2
      <4>4. ASSUME NEW n \in Int, n <= smallestUnsentTick PROVE n <= netDeadTick'[p]
        BY <1>2, <4>1, <4>4
      <4>5. ASSUME NEW k \in DOMAIN toSpoke'[p] PROVE toSpoke'[p][k].ack <= netDeadTick'[p]
        BY <3>2, <4>2, <4>3, <4>4
      <4> QED BY <4>2, <4>3, <4>4, <4>5
    <3> QED BY <3>4, <3>5
  <2> QED BY <1>1, <2>1 DEF DeadStop
<1>12. DeathsTaken'
  <2>1. ASSUME NEW p \in InGame, NEW q \in InGame \ {p}, q \notin stillConnected[p]
        PROVE  netDeadTick'[q] <= smallestUnreceivedTick[p]
    <3>1. p \in Players /\ q \in Players /\ q \notin connected
      BY <1>1, <2>1 DEF InGame, GameInvariant, SpokesSound
    <3>2. netDeadTick'[q] = netDeadTick[q]
      BY <1>3, <3>1
    <3> QED BY <2>1, <3>2 DEF PlayInvariant, DeathsTaken
  <2> QED BY <1>1, <2>1 DEF DeathsTaken
<1>13. ASSUME NEW p \in InGame PROVE PlaysItsOwn(p)' /\ \A q \in InGame : HasReceived(p, q)'
  <2>1. PlaysItsOwn(p)'
    BY <1>1 DEF PlayInvariant, PlaysItsOwn
  <2>2. ASSUME NEW q \in InGame PROVE HasReceived(p, q)'
    <3>1. FirstDue(p)' = FirstDue(p) /\ GameWriteTick(p, q)' = GameWriteTick(p, q)
      BY <1>1 DEF FirstDue, GameWriteTick
    <3>2. ASSUME NEW t \in StartingTick .. smallestUnreceivedTick[p] - 1
          PROVE  gameFlags[p][q][t - StartingTick + 1] = Decided(q, t)'
      <4>1. t \in Ticks /\ t < smallestIncompleteTick /\ p \in Players /\ q \in Players
        BY <1>1, ReceivedIsComplete DEF InGame
      <4>2. Decided(q, t)' = Decided(q, t)
        BY <4>1 DEF HubAction, SettledStands
      <4> QED BY <4>2 DEF PlayInvariant, HasReceived
    <3> QED BY <1>1, <3>1, <3>2 DEF PlayInvariant, HasReceived
  <2> QED BY <2>1, <2>2
<1>14. LagsWithinQueue'
  <2>1. ASSUME NEW p \in InGame PROVE Wanted(p)' - smallestUnreceivedTick[p] <= QueueSize
    <3>1. p \in Players /\ smallestUnreceivedTick[p] \in Int /\ QueueSize \in Int
      BY <1>1, StepNumbers, Constants DEF InGame
    <3>2. ASSUME p \in connected PROVE smallestIncompleteTick <= smallestUnreceivedTick[p] + QueueSize
      BY <1>1, <3>2, QueueReachesBack DEF GameInvariant, SpokesInvariant, LinksInvariant
    <3>3. CASE p \in connected'
      <4>1. (smallestIncompleteTick <= smallestUnreceivedTick[p] + QueueSize)'
        BY <3>3, QueueReachesBackNext DEF ReachesBack, SpokesInvariant, GameInvariant, LinksInvariant
      <4>2. smallestUnsentTick' \in Int /\ smallestUnsentTick' <= smallestIncompleteTick'
        BY <1>1, Constants DEF GameInvariant, HubInvariant, TypeOK, QueuesLineUp
      <4>3. smallestUnsentTick' <= smallestUnreceivedTick[p] + QueueSize
        BY <1>1, <1>2, <3>1, <4>1, <4>2
      <4> QED BY <3>1, <3>3, <4>2, <4>3 DEF Wanted
    <3>4. CASE p \notin connected' /\ p \in connected
      <4>1. netDeadTick'[p] = smallestIncompleteTick
        BY <1>3, <3>1, <3>4
      <4> QED BY <1>2, <3>1, <3>2, <3>4, <4>1 DEF Wanted
    <3>5. CASE p \notin connected' /\ p \notin connected
      <4>1. netDeadTick'[p] = netDeadTick[p]
        BY <1>3, <3>1, <3>5
      <4> QED BY <3>5, <4>1 DEF Wanted, PlayInvariant, LagsWithinQueue
    <3> QED BY <3>3, <3>4, <3>5
  <2> QED BY <1>1, <2>1 DEF LagsWithinQueue
<1> QED BY <1>4, <1>10, <1>11, <1>12, <1>13, <1>14 DEF PlayInvariant

-----------------------------------------------------------------------------
(* What a machine takes from a frame.                                        *)

\* Without bandwidth reduction the hub makes up nothing, so no frame is early.
LEMMA NothingIsMadeUp ==
  ASSUME ~BandwidthReduction, SpokesInvariant, MachinesInvariant, NEW p \in Players, NEW f,
         FrameFits(p, f), FrameToSpokeSound(p, f)
  PROVE  /\ ~f.reflects /\ f.ack <= outgoingWriteTick[p]
         /\ \A q \in InGame : \A t \in Ticks : q \in connected \/ t < netDeadTick[q] => Decided(q, t) = Real(t)
<1>1. \A t \in Ticks : madeUp[t] = {}
  BY DEF MachinesInvariant
<1>2. ~f.reflects
  BY <1>1 DEF FrameFits
<1>3. f.ack \in Int /\ f.ack <= flagsWriteTick[p] /\ outgoingWriteTick[p] \in Int /\ flagsWriteTick[p] \in Int
  BY AckedBounds DEF SpokesInvariant
<1>4. ~(f.ack > outgoingWriteTick[p])
  <2>1. ASSUME f.ack > outgoingWriteTick[p] PROVE FALSE
    <3>1. outgoingWriteTick[p] \in outgoingWriteTick[p] .. flagsWriteTick[p] - 1
      BY <1>3, <2>1
    <3> QED BY <1>1, <3>1 DEF SpokesInvariant, LinksInvariant, MakesUpTheRest
  <2> QED BY <2>1
<1>5. ASSUME NEW q \in InGame, NEW t \in Ticks, q \in connected \/ t < netDeadTick[q]
      PROVE  Decided(q, t) = Real(t)
  <2>1. t \in Int /\ netDeadTick[q] \in Int
    BY Constants DEF Ticks, InGame, SpokesInvariant, GameInvariant, HubInvariant, TypeOK
  <2> QED BY <1>1, <1>5, <2>1 DEF Decided
<1> QED BY <1>2, <1>3, <1>4, <1>5

\* With room in its queues a machine in company takes all that a frame holds.
LEMMA AllIsTaken ==
  ASSUME ~BandwidthReduction, SpokesInvariant, SpokesSound', MachinesInvariant, NEW p \in Players, NEW f,
         FrameFits(p, f), FrameToSpokeSound(p, f), FrameDecided(p, f), SpokeReceives(p, f),
         FrameComplete(p, f), InCompany(p), Room(p), NEW t \in DOMAIN f.flags
  PROVE  t < smallestUnreceivedTick'[p]
<1> DEFINE su    == smallestUnreceivedTick[p]
           start == CHOOSE u \in DOMAIN f.flags : \A v \in DOMAIN f.flags : u <= v
           last  == CHOOSE u \in DOMAIN f.flags : \A v \in DOMAIN f.flags : v <= u
           stop  == Smaller(last + 1, su + QueueSpace(p))
<1>1. /\ smallestUnsentTick \in Int /\ su \in Int /\ QueueSpace(p) \in Int
      /\ Wanted(p) - su <= QueueSpace(p) /\ Wanted(p) \in Int
  <2>1. smallestUnsentTick \in Int /\ su \in Int /\ QueueSpace(p) \in Int /\ netDeadTick[p] \in Int
    BY Constants, QueueSpaceIsNumber DEF SpokesInvariant, GameInvariant, SpokesSound, HubInvariant, TypeOK
  <2> QED BY <2>1 DEF Room, Wanted
<1>2. /\ DOMAIN f.flags \in SUBSET Int /\ DOMAIN f.flags # {} /\ f.flags # << >>
      /\ \A u \in DOMAIN f.flags : u <= smallestUnsentTick - 1 /\ FirstTick <= u
  BY <1>1, Constants, EmptySequence DEF FrameToSpokeSound
<1>3. last \in DOMAIN f.flags /\ \A u \in DOMAIN f.flags : u <= last
  <2>1. smallestUnsentTick - 1 \in Int
    BY <1>1
  <2>2. \E u \in DOMAIN f.flags : \A v \in DOMAIN f.flags : v <= u
    BY <1>2, <2>1, GreatestInteger
  <2> QED BY <2>2
<1>4. start \in DOMAIN f.flags /\ \A u \in DOMAIN f.flags : start <= u
  <2>1. FirstTick \in Int
    BY Constants
  <2>2. \E u \in DOMAIN f.flags : \A v \in DOMAIN f.flags : u <= v
    BY <1>2, <2>1, LeastInteger
  <2> QED BY <2>2
<1> HIDE DEF start, last
<1>5. start \in Int /\ last \in Int /\ t \in Int /\ t <= last /\ start <= last
  BY <1>2, <1>3, <1>4
<1>6. start <= su
  <2>1. PICK u \in DOMAIN f.flags : u <= su
    BY <1>2 DEF FrameComplete
  <2> QED BY <1>1, <1>2, <1>4, <1>5, <2>1
<1>7. SpokesSound /\ su <= smallestUnreceivedTick'[p] /\ smallestUnreceivedTick'[p] \in Int
  <2>1. SpokesSound /\ su <= smallestUnreceivedTick'[p]
    BY ReceivedGrows DEF SpokesInvariant, GameInvariant
  <2>2. smallestUnreceivedTick'[p] \in FirstTick .. Horizon /\ FirstTick \in Int /\ Horizon \in Int
    BY Constants DEF SpokesSound
  <2> QED BY <2>1, <2>2
<1>8. CASE t < su
  BY <1>1, <1>5, <1>7, <1>8
<1>9. CASE ~(t < su)
  <2>1. QueueSpace(p) > 0 /\ stop = last + 1
    <3>1. last <= Wanted(p) - 1
      <4>1. p \notin connected => last < netDeadTick[p]
        BY <1>3 DEF FrameFits
      <4>2. last <= smallestUnsentTick - 1
        BY <1>2, <1>3
      <4> QED BY <1>1, <1>5, <4>1, <4>2 DEF Wanted
    <3> QED BY <1>1, <1>5, <1>9, <3>1 DEF Smaller
  <2>2. TakesView(p, f) /\ ReceiveFlags(p, f, start, stop)
    <3>1. ~f.reflects /\ f.ack <= outgoingWriteTick[p]
      BY NothingIsMadeUp
    <3>2. f.ack \in Int /\ outgoingWriteTick[p] \in Int
      BY AckedBounds DEF SpokesInvariant
    <3>3. ~(f.ack > outgoingWriteTick[p])
      BY <3>1, <3>2
    <3>4. TakesView(p, f) /\ ReceiveTicks(p, f, Acked(p, f))
      BY <3>1, <3>3 DEF SpokeReceives, TakesView, Acked
    <3>5. ~(SkipsTicks(p, start) \/ QueueSpace(p) <= 0)
      BY <1>1, <1>5, <1>6, <2>1 DEF SkipsTicks
    <3> QED BY <1>2, <3>4, <3>5 DEF ReceiveTicks, start, last
  <2>3. TakesFlags(p, f, start, stop) /\ stop \in Int
    <3>1. start .. last \subseteq DOMAIN f.flags
      BY <1>3, <1>4 DEF FrameDecided
    <3>2. start .. stop - 1 \subseteq DOMAIN f.flags /\ stop \in Int
      BY <1>5, <2>1, <3>1
    <3>3. stop <= su + QueueSpace(p)
      BY <1>1, <1>5, <2>1 DEF Smaller
    <3> QED BY <1>4, <1>6, <2>1, <2>2, <3>2, <3>3 DEF TakesFlags
  <2>4. FailedAsserts(p, f, start, stop) = {}
    BY <1>5, <2>2, <2>3, AssertsHold DEF SpokesInvariant, SpokeReceives
  <2>5. smallestUnreceivedTick' = [smallestUnreceivedTick EXCEPT ![p] = Larger(@, stop)]
    BY <2>2, <2>4 DEF ReceiveFlags
  <2>6. smallestUnreceivedTick'[p] = Larger(su, stop)
    BY <1>7, <2>5 DEF SpokesSound
  <2> QED BY <1>1, <1>5, <2>1, <2>6 DEF Larger
<1> QED BY <1>8, <1>9

\* A queue of what its player did goes on with what it does next.
LEMMA OwnGoesOn ==
  ASSUME NEW s, IsSequence(s), NEW n \in Nat, NEW g,
         g = [k \in 1 .. n |-> Real(StartingTick + Len(s) + k - 1)],
         \A k \in 1 .. Len(s) : s[k] = Real(StartingTick + k - 1)
  PROVE  \A k \in 1 .. Len(s \o g) : (s \o g)[k] = Real(StartingTick + k - 1)
<1>1. g = [k \in 1 .. n |-> g[k]] /\ \A k \in 1 .. n : g[k] = Real(StartingTick + Len(s) + k - 1)
  OBVIOUS
<1>2. IsSequence(g)
  BY <1>1, Listed
<1>3. Continues(s, g, s \o g) /\ Len(s) \in Nat /\ Len(g) = n
  <2>1. DOMAIN g = 1 .. n
    BY <1>1
  <2> QED BY <1>2, <2>1, Concatenation, SequenceLength
<1>4. ASSUME NEW k \in 1 .. Len(s \o g) PROVE (s \o g)[k] = Real(StartingTick + k - 1)
  <2>1. Len(s \o g) = Len(s) + n /\ k \in Int
    BY <1>3 DEF Continues
  <2>2. CASE k <= Len(s)
    <3>1. k \in 1 .. Len(s)
      BY <1>3, <2>1, <2>2
    <3>2. (s \o g)[k] = s[k]
      BY <1>3, <3>1 DEF Continues, Extends
    <3> QED BY <3>1, <3>2
  <2>3. CASE ~(k <= Len(s))
    <3>1. k - Len(s) \in 1 .. n /\ Len(s) + (k - Len(s)) = k
      BY <1>3, <2>1, <2>3
    <3>2. (s \o g)[Len(s) + (k - Len(s))] = g[k - Len(s)]
      BY <1>3, <3>1 DEF Continues
    <3>3. g[k - Len(s)] = Real(StartingTick + Len(s) + (k - Len(s)) - 1)
      BY <1>1, <3>1
    <3>4. StartingTick + Len(s) + (k - Len(s)) - 1 = StartingTick + k - 1
      BY <1>3, <2>1, HubConstants
    <3> QED BY <3>1, <3>2, <3>3, <3>4
  <2> QED BY <2>2, <2>3
<1> QED BY <1>4

\* What a filled queue holds.
LEMMA FilledHolds ==
  ASSUME NEW s, IsSequence(s), NEW tick \in Int,
         NEW n \in Int, 1 <= n, StartingTick + n <= tick
  PROVE  FilledWithNetDead(s, tick)[n] = IF n <= Len(s) THEN s[n] ELSE NetDeadFlags
<1> DEFINE m == Larger(tick - StartingTick - Len(s), 0)
           g == [k \in 1 .. m |-> NetDeadFlags]
<1>1. StartingTick \in Int /\ Len(s) \in Nat
  BY HubConstants, SequenceLength
<1>2. m \in Nat /\ tick - StartingTick - Len(s) <= m
  BY <1>1 DEF Larger
<1> HIDE DEF m
<1>3. g = [k \in 1 .. m |-> g[k]] /\ DOMAIN g = 1 .. m /\ \A k \in 1 .. m : g[k] = NetDeadFlags
  OBVIOUS
<1> HIDE DEF g
<1>4. Continues(s, g, s \o g) /\ Len(g) = m
  BY <1>2, <1>3, Listed, Concatenation, SequenceLength
<1>5. FilledWithNetDead(s, tick) = s \o g
  BY DEF FilledWithNetDead, m, g
<1>6. CASE n <= Len(s)
  <2>1. n \in 1 .. Len(s)
    BY <1>1, <1>6
  <2> QED BY <1>4, <1>5, <1>6, <2>1 DEF Continues, Extends
<1>7. CASE ~(n <= Len(s))
  <2>1. n - Len(s) \in 1 .. m /\ Len(s) + (n - Len(s)) = n
    BY <1>1, <1>2, <1>7
  <2>2. (s \o g)[Len(s) + (n - Len(s))] = NetDeadFlags
    BY <1>3, <1>4, <2>1 DEF Continues
  <2> QED BY <1>5, <1>7, <2>1, <2>2
<1> QED BY <1>6, <1>7

\* With the news of a death p takes the ticks before it.
LEMMA ReceiptTakesDeaths ==
  ASSUME ~BandwidthReduction, SpokesInvariant, SpokesSound', MachinesInvariant, NEW p \in Players, NEW f,
         FrameFits(p, f), FrameToSpokeSound(p, f), FrameDecided(p, f), SpokeReceives(p, f),
         FrameComplete(p, f), DeathsTaken, InCompany(p) => Room(p),
         NEW q \in InGame \ {p}, q \notin stillConnected'[p]
  PROVE  /\ netDeadTick[q] <= smallestUnreceivedTick'[p]
         /\ f.flags = << >> => netDeadTick[q] <= smallestUnreceivedTick[p]
<1>1. /\ p \in InGame /\ smallestUnreceivedTick[p] \in Int /\ smallestUnreceivedTick'[p] \in Int
      /\ smallestUnreceivedTick[p] <= smallestUnreceivedTick'[p] /\ q \in Players /\ netDeadTick[q] \in Int
  <2>1. p \in InGame /\ smallestUnreceivedTick[p] <= smallestUnreceivedTick'[p]
    BY ReceivedGrows DEF SpokesInvariant
  <2>2. smallestUnreceivedTick'[p] \in FirstTick .. Horizon /\ FirstTick \in Int /\ Horizon \in Int
    BY Constants DEF SpokesSound
  <2>3. smallestUnreceivedTick[p] \in Int /\ q \in Players /\ netDeadTick[q] \in Int
    BY StepNumbers DEF SpokesInvariant, InGame
  <2> QED BY <2>1, <2>2, <2>3
<1>2. CASE q \notin stillConnected[p]
  <2>1. netDeadTick[q] <= smallestUnreceivedTick[p]
    BY <1>1, <1>2 DEF DeathsTaken
  <2> QED BY <1>1, <2>1
<1>3. CASE q \in stillConnected[p]
  <2>1. stillConnected'[p] = StillConnected(p, f)
    <3>1. spokeConnected = [r \in Players |-> spokeConnected[r]] /\ deadTick = [r \in Players |-> deadTick[r]]
      BY DEF SpokesInvariant, LockstepInvariant, SpokesDecided
    <3> QED BY <1>3, <3>1, OthersStay DEF SpokesInvariant, GameInvariant
  <2>2. PICK death \in f.deaths : death[1] = q
    BY <1>3, <2>1 DEF StillConnected
  <2>3. death[2] = netDeadTick[q]
    BY <2>2 DEF FrameDecided
  <2>4. netDeadTick[q] <= smallestUnreceivedTick[p] \/ netDeadTick[q] - 1 \in DOMAIN f.flags
    BY <2>2, <2>3 DEF FrameComplete
  <2>5. CASE netDeadTick[q] <= smallestUnreceivedTick[p]
    BY <1>1, <2>5
  <2>6. CASE netDeadTick[q] - 1 \in DOMAIN f.flags
    <3>1. InCompany(p)
      BY <1>1, <1>3 DEF InCompany
    <3>2. netDeadTick[q] - 1 < smallestUnreceivedTick'[p]
      BY <2>6, <3>1, AllIsTaken
    <3>3. f.flags # << >>
      BY <2>6, EmptySequence
    <3> QED BY <1>1, <3>2, <3>3
  <2> QED BY <2>4, <2>5, <2>6
<1> QED BY <1>2, <1>3

\* p's own queue goes on with what its player did.
LEMMA ReceiptPlaysItsOwn ==
  ASSUME ~BandwidthReduction, SpokesInvariant, MachinesInvariant, NEW p \in Players, NEW f,
         FrameFits(p, f), FrameToSpokeSound(p, f), FrameDecided(p, f), SpokeReceives(p, f),
         PlaysItsOwn(p)
  PROVE  PlaysItsOwn(p)'
<1> DEFINE s  == gameFlags[p][p]
           sU == smallestUnconfirmedTick[p]
<1>1. spokeConnected[p] /\ p \in InGame
  BY ReceiptKinds DEF SpokesInvariant, FrameFits
<1>2. \A k \in 1 .. Len(s) : s[k] = Real(StartingTick + k - 1)
  BY <1>1 DEF PlaysItsOwn
<1>3. IsSequence(s) /\ Len(s) \in Nat /\ sU \in Int /\ StartingTick \in Int /\ FirstDue(p) \in Int
      /\ unconfirmedWriteTick[p] \in Int
  BY StepNumbers DEF SpokesInvariant
<1>4. StartingTick + Len(s) = sU
  BY <1>1 DEF MachinesInvariant, StaysInStep, ExpectsItsOwn, GameWriteTick
<1>5. gameFlags = [r \in Players |-> [q \in Players |-> gameFlags[r][q]]]
  BY DEF SpokesInvariant, GameInvariant, SpokesSound
<1> HIDE DEF s, sU
<1>6. ASSUME NEW n \in Nat, NEW g, g = [k \in 1 .. n |-> Real(sU + k - 1)], gameFlags'[p][p] = s \o g
      PROVE  PlaysItsOwn(p)'
  <2>1. g = [k \in 1 .. n |-> Real(StartingTick + Len(s) + k - 1)]
    BY <1>4, <1>6
  <2>2. \A k \in 1 .. Len(s \o g) : (s \o g)[k] = Real(StartingTick + k - 1)
    BY <1>2, <1>3, <2>1, OwnGoesOn
  <2> QED BY <1>6, <2>2 DEF PlaysItsOwn
<1>7. CASE TakesNothing(p)
  BY <1>1, <1>7 DEF TakesNothing, PlaysItsOwn
<1>8. CASE TakesItsOwn(p, f)
  <2> DEFINE n == Larger(unconfirmedWriteTick[p] - sU, 0)
  <2>1. gameFlags'[p][p] = s \o Unconfirmed(p)
    BY <1>5, <1>8 DEF TakesItsOwn, ReceiveNoFlags, s
  <2>2. n \in Nat
    BY <1>3 DEF Larger
  <2>3. Unconfirmed(p) = [k \in 1 .. n |-> Real(sU + k - 1)]
    BY DEF Unconfirmed, sU
  <2> HIDE DEF n
  <2> QED BY <1>6, <2>1, <2>2, <2>3
<1>9. ASSUME TakesView(p, f), NEW start \in Int, NEW stop \in Int, TakesFlags(p, f, start, stop)
      PROVE  PlaysItsOwn(p)'
  <2> DEFINE first == FirstDue(p)
             taken == Larger(stop - first, 0)
             more  == [k \in 1 .. taken |-> TakenFlags(p, f, p, first + k - 1)]
  <2>1. FailedAsserts(p, f, start, stop) = {} /\ ~f.reflects
    BY <1>1, <1>9, AssertsHold, NothingIsMadeUp DEF SpokesInvariant
  <2>2. gameFlags'[p][p] = s \o more
    <3> DEFINE all(q) == [k \in 1 .. taken |-> TakenFlags(p, f, q, first + k - 1)]
    <3>1. gameFlags' = [gameFlags EXCEPT ![p] =
                          [q \in Players |-> IF q \in Zombies THEN @[q] ELSE @[q] \o all(q)]]
      BY <1>9, <2>1 DEF TakesFlags, ReceiveFlags, FirstDue
    <3>2. more = all(p)
      OBVIOUS
    <3> HIDE DEF all, more
    <3> QED BY <1>1, <1>5, <3>1, <3>2 DEF s, InGame
  <2>3. taken \in Nat
    BY <1>3 DEF Larger
  <2>4. \A k \in 1 .. taken : TakenFlags(p, f, p, first + k - 1) = Real(sU + k - 1)
    <3>1. ASSUME NEW k \in 1 .. taken PROVE TakenFlags(p, f, p, first + k - 1) = Real(sU + k - 1)
      <4>1. TakenFlags(p, f, p, first + k - 1) = Real(sU + (first + k - 1) - first)
        BY <2>1 DEF TakenFlags, FirstDue, sU
      <4> HIDE DEF first, taken
      <4>2. sU + (first + k - 1) - first = sU + k - 1
        BY <1>3, <2>3 DEF first
      <4> QED BY <4>1, <4>2
    <3> QED BY <3>1
  <2>5. more = [k \in 1 .. taken |-> Real(sU + k - 1)]
    <3> HIDE DEF taken, first
    <3> QED BY <2>4
  <2> HIDE DEF taken, more
  <2> QED BY <1>6, <2>2, <2>3, <2>5
<1> QED BY <1>7, <1>8, <1>9, ReceiptKinds DEF SpokesInvariant

\* A dead player goes on alone no further than to the tick of its death.
LEMMA AckedByDeath ==
  ASSUME SpokesInvariant, DeadStop, NEW p \in InGame, NEW k \in DOMAIN toSpoke[p],
         ToldAlone(p), p \notin connected
  PROVE  Acked(p, toSpoke[p][k]) <= netDeadTick[p]
<1> DEFINE f == toSpoke[p][k]
<1>1. p \in Players /\ FrameToSpokeSound(p, f)
  BY DEF InGame, SpokesInvariant, GameInvariant, WiresSound
<1>2. outgoingReadTick[p] <= netDeadTick[p] /\ f.ack <= netDeadTick[p]
  BY DEF DeadStop
<1> HIDE DEF f
<1>3. /\ f.ack \in Int /\ outgoingReadTick[p] \in Int /\ outgoingWriteTick[p] \in Int
      /\ netDeadTick[p] \in Int
  BY <1>1, AckedBounds, StepNumbers DEF SpokesInvariant
<1>4. Acked(p, f) <= netDeadTick[p]
  BY <1>2, <1>3 DEF Acked, Larger, Smaller
<1> QED BY <1>4 DEF f

\* Alone, p fills in what is settled.
LEMMA OwnTakenIsSettled ==
  ASSUME ~BandwidthReduction, SpokesInvariant, MachinesInvariant, PlayInvariant, SpokesSound',
         UNCHANGED <<hubVars, madeUp>>, NEW p \in InGame, NEW k \in DOMAIN toSpoke[p],
         FrameFits(p, toSpoke[p][k]), FrameToSpokeSound(p, toSpoke[p][k]), FrameDecided(p, toSpoke[p][k]),
         SpokeReceives(p, toSpoke[p][k]), TakesView(p, toSpoke[p][k]), TakesItsOwn(p, toSpoke[p][k]),
         InCompany(p) => Room(p), PlaysItsOwn(p)', StaysInStep(p)', spokeConnected'[p],
         NEW q \in InGame, NEW t \in StartingTick .. smallestUnreceivedTick'[p] - 1
  PROVE  gameFlags'[p][q][t - StartingTick + 1] = Decided(q, t)'
<1> DEFINE f  == toSpoke[p][k]
           su == smallestUnreceivedTick[p]
           acked == Acked(p, f)
           n == t - StartingTick + 1
<1>1. p \in Players /\ q \in Players /\ spokeConnected[p] /\ Decided(q, t)' = Decided(q, t)
  BY ReceiptKinds DEF InGame, SpokesInvariant, Decided, hubVars, playerVars
<1>2. /\ su \in Int /\ StartingTick \in Int /\ FirstDue(p) \in Int
      /\ FirstDue(p) = su \/ FirstDue(p) = StartingTick
      /\ su <= FirstDue(p) /\ StartingTick <= FirstDue(p)
      /\ \A r \in Players : netDeadTick[r] \in Int /\ IsSequence(gameFlags[p][r])
      /\ \A r \in Players : Len(gameFlags[p][r]) \in Nat
  BY <1>1, StepNumbers DEF SpokesInvariant
<1>3. /\ smallestUnreceivedTick'[p] = acked
      /\ \A r \in InGame \ {p} : gameFlags'[p][r] = FilledWithNetDead(gameFlags[p][r], acked)
  <2>1. /\ smallestUnreceivedTick' = [smallestUnreceivedTick EXCEPT ![p] = acked]
        /\ gameFlags' = [gameFlags EXCEPT ![p] =
             [r \in Players |-> IF r = p THEN @[r] \o Unconfirmed(p)
                                ELSE IF r \in Zombies THEN @[r] ELSE FilledWithNetDead(@[r], acked)]]
    BY DEF TakesItsOwn, ReceiveNoFlags
  <2> HIDE DEF acked, f
  <2> QED BY <1>1, <2>1 DEF SpokesInvariant, GameInvariant, SpokesSound, InGame
<1>4. WeAreAlone(p, f, acked) /\ f.flags = << >>
  BY DEF TakesItsOwn
<1>5. ToldAlone(p)
  BY <1>4 DEF WeAreAlone, ToldAlone, StillConnected
<1>6. acked \in Int /\ acked <= outgoingWriteTick[p] /\ outgoingWriteTick[p] \in Int
  BY <1>1, AckedBounds DEF SpokesInvariant
<1>7. t \in Int /\ n \in Int /\ 1 <= n /\ StartingTick + n <= acked /\ t < acked /\ t = StartingTick + n - 1
  BY <1>2, <1>3, <1>6
<1>8. t \in Ticks
  <2>1. acked <= Horizon /\ FirstTick <= StartingTick /\ Horizon \in Int /\ FirstTick \in Int
    <3>1. smallestUnreceivedTick'[p] \in FirstTick .. Horizon
      BY <1>1 DEF SpokesSound
    <3> QED BY <1>2, <1>3, <3>1, Constants, HubConstants DEF FirstTick
  <2> HIDE DEF acked, n
  <2> QED BY <1>2, <1>6, <1>7, <2>1 DEF Ticks
<1> HIDE DEF f, su, acked, n
<1>9. CASE q = p
  <2>1. n \in 1 .. Len(gameFlags'[p][p])
    <3>1. FirstDue(p)' <= GameWriteTick(p, p)'
      BY DEF StaysInStep, ExpectsItsOwn
    <3>2. Len(gameFlags'[p][p]) \in Nat
      BY <1>1, SequenceLength DEF SpokesSound
    <3>3. acked <= FirstDue(p)'
      BY <1>2, <1>3, <1>6 DEF FirstDue, Larger
    <3>4. FirstDue(p)' \in Int
      BY <1>2, <1>3, <1>6 DEF FirstDue, Larger
    <3> QED BY <1>2, <1>6, <1>7, <3>1, <3>2, <3>3, <3>4 DEF GameWriteTick
  <2>2. gameFlags'[p][p][n] = Real(StartingTick + n - 1)
    BY <2>1 DEF PlaysItsOwn
  <2>3. p \in connected \/ t < netDeadTick[p]
    <3>1. ASSUME p \notin connected PROVE t < netDeadTick[p]
      <4>1. acked <= netDeadTick[p]
        BY <1>5, <3>1, AckedByDeath DEF PlayInvariant, acked, f
      <4> QED BY <1>1, <1>2, <1>6, <1>7, <4>1
    <3> QED BY <3>1
  <2>4. Decided(p, t) = Real(t)
    BY <1>1, <1>8, <2>3, NothingIsMadeUp DEF f
  <2> QED BY <1>1, <1>7, <1>9, <2>2, <2>4 DEF n
<1>10. CASE q # p
  <2>1. gameFlags'[p][q][n] = IF n <= Len(gameFlags[p][q]) THEN gameFlags[p][q][n] ELSE NetDeadFlags
    BY <1>1, <1>2, <1>3, <1>6, <1>7, <1>10, FilledHolds
  <2>2. StartingTick + Len(gameFlags[p][q]) = FirstDue(p)
    BY <1>1, <1>10 DEF MachinesInvariant, StaysInStep, ExpectsItsOwn, GameWriteTick
  <2>3. CASE n <= Len(gameFlags[p][q])
    <3>1. t < FirstDue(p) /\ StartingTick <= t
      BY <1>1, <1>2, <1>7, <2>2, <2>3
    <3>2. t \in StartingTick .. su - 1
      BY <1>2, <1>7, <3>1
    <3>3. gameFlags[p][q][t - StartingTick + 1] = Decided(q, t)
      BY <3>2 DEF PlayInvariant, HasReceived, su
    <3> QED BY <1>1, <2>1, <2>3, <3>3 DEF n
  <2>4. CASE ~(n <= Len(gameFlags[p][q]))
    <3>1. su <= t
      BY <1>1, <1>2, <1>7, <2>2, <2>4
    <3>2. q \notin stillConnected'[p]
      <4>1. stillConnected'[p] = StillConnected(p, f)
        BY <1>1 DEF TakesView, f, SpokesInvariant, GameInvariant, SpokesSound
      <4> QED BY <1>1, <1>4, <1>10, <4>1 DEF WeAreAlone
    <3>3. netDeadTick[q] <= su
      BY <1>1, <1>4, <1>10, <3>2, ReceiptTakesDeaths DEF PlayInvariant, FramesComplete, f, su
    <3>4. q \notin connected
      <4>1. connected \subseteq stillConnected'[p]
        BY <1>1 DEF SpokesSound, hubVars, playerVars
      <4> QED BY <3>2, <4>1
    <3>5. t >= netDeadTick[q]
      BY <1>1, <1>2, <1>7, <3>1, <3>3
    <3>6. Decided(q, t) = NetDeadFlags
      BY <3>4, <3>5 DEF Decided
    <3> QED BY <1>1, <2>1, <2>4, <3>6 DEF n
  <2> QED BY <2>3, <2>4
<1> QED BY <1>9, <1>10

\* The flags p takes are settled.
LEMMA FlagsTakenAreSettled ==
  ASSUME ~BandwidthReduction, SpokesInvariant, MachinesInvariant, PlayInvariant, SpokesSound',
         UNCHANGED <<hubVars, madeUp, spokeConnected>>, NEW p \in InGame, NEW f,
         FrameFits(p, f), FrameToSpokeSound(p, f), FrameDecided(p, f), spokeConnected[p], TakesView(p, f),
         NEW start \in Int, NEW stop \in Int, TakesFlags(p, f, start, stop),
         NEW q \in InGame, NEW t \in StartingTick .. smallestUnreceivedTick'[p] - 1
  PROVE  gameFlags'[p][q][t - StartingTick + 1] = Decided(q, t)'
<1> DEFINE su == smallestUnreceivedTick[p]
           first == FirstDue(p)
<1>1. /\ p \in Players /\ q \in Players
      /\ Decided(q, t)' = Decided(q, t) /\ ~f.reflects
  BY NothingIsMadeUp DEF InGame, Decided, hubVars, playerVars
<1>2. /\ su \in Int /\ StartingTick \in Int /\ first \in Int /\ first = Larger(su, StartingTick)
      /\ first = su \/ first = StartingTick
      /\ su <= first /\ StartingTick <= first
      /\ Len(gameFlags[p][q]) \in Nat /\ IsSequence(gameFlags[p][q])
  BY <1>1, StepNumbers DEF SpokesInvariant, FirstDue
<1>3. FailedAsserts(p, f, start, stop) = {} /\ (stop > first => smallestUnconfirmedTick[p] = first)
  BY <1>1, AssertsHold DEF SpokesInvariant
<1>4. /\ ReceiveFlags(p, f, start, stop) /\ start <= su /\ start .. stop - 1 \subseteq DOMAIN f.flags
  BY DEF TakesFlags
<1>5. smallestUnreceivedTick'[p] = Larger(su, stop)
  BY <1>1, <1>3, <1>4 DEF ReceiveFlags, SpokesInvariant, GameInvariant, SpokesSound
<1>6. CASE stop > first
  <2> HIDE DEF first, su
  <2>1. stop - 1 \in DOMAIN f.flags /\ su <= stop - 1 /\ stop - 1 \in Int
    BY <1>2, <1>4, <1>6
  <2>2. ~Alone(p)
    BY <1>1, <2>1, OthersFlags DEF SpokesInvariant, su
  <2>3. \A r \in InGame : GameWriteTick(p, r) = first
    BY <2>2 DEF MachinesInvariant, StaysInStep, ExpectsItsOwn, first
  <2>4. ASSUME NEW r \in InGame PROVE Plays(p, r)
    <3>1. first = Larger(su, StartingTick) /\ StartingTick + Len(gameFlags[p][r]) = first
      BY <1>2, <2>3 DEF GameWriteTick
    <3>2. \A u \in StartingTick .. su - 1 : gameFlags[p][r][u - StartingTick + 1] = Decided(r, u)
      BY DEF PlayInvariant, HasReceived, su
    <3> QED BY <1>2, <3>1, <3>2 DEF Plays, su
  <2>5. DatesDeaths(p)
    BY <1>1 DEF SpokesInvariant, LockstepInvariant, SpokesDecided
  <2>6. Plays(p, q)'
    BY <1>4, <2>4, <2>5, FlagsPlayed DEF SpokesInvariant, su
  <2> QED BY <2>6 DEF Plays
<1>7. CASE ~(stop > first)
  <2> DEFINE taken == Larger(stop - first, 0)
             more(r) == [k \in 1 .. taken |-> TakenFlags(p, f, r, first + k - 1)]
             g == more(q)
  <2>1. taken = 0
    BY <1>2, <1>7 DEF Larger
  <2>2. gameFlags' = [gameFlags EXCEPT ![p] =
          [r \in Players |-> IF r \in Zombies THEN @[r] ELSE @[r] \o more(r)]]
    BY <1>3, <1>4 DEF ReceiveFlags, FirstDue
  <2> HIDE DEF taken, more
  <2>3. gameFlags'[p][q] = gameFlags[p][q] \o g
    BY <1>1, <2>2 DEF SpokesInvariant, GameInvariant, SpokesSound, InGame
  <2>4. g = [k \in 1 .. 0 |-> g[k]] /\ DOMAIN g = 1 .. 0
    BY <2>1 DEF more
  <2> HIDE DEF g
  <2>5. Continues(gameFlags[p][q], g, gameFlags'[p][q])
    BY <1>2, <2>3, <2>4, Listed, Concatenation
  <2> HIDE DEF su, first
  <2>6. t \in StartingTick .. su - 1 /\ t - StartingTick + 1 \in Int /\ 1 <= t - StartingTick + 1
    BY <1>2, <1>5, <1>7 DEF Larger
  <2>7. t - StartingTick + 1 \in 1 .. Len(gameFlags[p][q])
    <3>1. first <= StartingTick + Len(gameFlags[p][q])
      BY DEF PlayInvariant, HasReceived, GameWriteTick, first
    <3> QED BY <1>2, <2>6, <3>1
  <2>8. gameFlags'[p][q][t - StartingTick + 1] = gameFlags[p][q][t - StartingTick + 1]
    BY <2>5, <2>7 DEF Continues, Extends
  <2>9. gameFlags[p][q][t - StartingTick + 1] = Decided(q, t)
    BY <2>6 DEF PlayInvariant, HasReceived, su
  <2> QED BY <1>1, <2>8, <2>9
<1> QED BY <1>6, <1>7

\* What p plays once it has taken a frame.
LEMMA ReceiptPlaysAll ==
  ASSUME ~BandwidthReduction, SpokesInvariant, MachinesInvariant, PlayInvariant, SpokesSound',
         UNCHANGED <<hubVars, madeUp>>, NEW p \in Players, NEW k \in DOMAIN toSpoke[p],
         FrameFits(p, toSpoke[p][k]), FrameToSpokeSound(p, toSpoke[p][k]), FrameDecided(p, toSpoke[p][k]),
         SpokeReceives(p, toSpoke[p][k]), InCompany(p) => Room(p)
  PROVE  /\ PlaysItsOwn(p)' /\ \A q \in InGame : HasReceived(p, q)'
         /\ \A q \in InGame \ {p} : q \notin stillConnected'[p] => netDeadTick'[q] <= smallestUnreceivedTick'[p]
<1> DEFINE f == toSpoke[p][k]
<1>1. p \in InGame /\ spokeConnected[p] /\ UNCHANGED spokeConnected
  BY ReceiptKinds DEF SpokesInvariant, FrameFits
<1>2. FrameComplete(p, f)
  BY DEF PlayInvariant, FramesComplete
<1>3. \A q \in InGame \ {p} : q \notin stillConnected'[p] => netDeadTick'[q] <= smallestUnreceivedTick'[p]
  BY <1>2, ReceiptTakesDeaths DEF PlayInvariant, hubVars, playerVars
<1>4. PlaysItsOwn(p)'
  BY <1>1, ReceiptPlaysItsOwn DEF PlayInvariant
<1>5. StaysInStep(p)'
  BY ReceiptStaysInStep
<1>6. ASSUME NEW q \in InGame PROVE FirstDue(p)' <= GameWriteTick(p, q)'
  <2>1. ExpectsItsOwn(p)'
    BY <1>1, <1>5 DEF StaysInStep
  <2>2. FirstDue(p)' \in Int
    <3>1. smallestUnreceivedTick'[p] \in FirstTick .. Horizon /\ FirstTick \in Int /\ Horizon \in Int
          /\ StartingTick \in Int
      BY Constants, HubConstants DEF SpokesSound
    <3> QED BY <3>1 DEF FirstDue, Larger
  <2>3. FirstDue(p)' <= GameWriteTick(p, p)'
    BY <2>1 DEF ExpectsItsOwn
  <2>4. q # p => GameWriteTick(p, q)' = FirstDue(p)'
    BY <2>1 DEF ExpectsItsOwn, InGame
  <2> QED BY <2>2, <2>3, <2>4
<1>7. ASSUME NEW q \in InGame, NEW t \in StartingTick .. smallestUnreceivedTick'[p] - 1
      PROVE  gameFlags'[p][q][t - StartingTick + 1] = Decided(q, t)'
  <2>1. CASE TakesNothing(p)
    BY <1>1, <2>1 DEF TakesNothing, PlayInvariant, HasReceived, Decided, hubVars, playerVars
  <2>2. CASE TakesView(p, f) /\ TakesItsOwn(p, f)
    BY <1>1, <1>4, <1>5, <2>2, OwnTakenIsSettled
  <2>3. ASSUME TakesView(p, f), NEW start \in Int, NEW stop \in Int, TakesFlags(p, f, start, stop)
        PROVE  gameFlags'[p][q][t - StartingTick + 1] = Decided(q, t)'
    BY <1>1, <2>3, FlagsTakenAreSettled
  <2> QED BY <2>1, <2>2, <2>3, ReceiptKinds DEF SpokesInvariant
<1> QED BY <1>3, <1>4, <1>6, <1>7 DEF HasReceived

-----------------------------------------------------------------------------
(* Every step keeps the play.                                                *)

\* What was to be received, and what was told, only becomes less.
LEMMA FramesStayComplete ==
  ASSUME SpokesInvariant, FramesComplete, OnlyTakenFromSpokes,
         \A p \in Players : /\ smallestUnreceivedTick'[p] \in Int
                            /\ smallestUnreceivedTick[p] <= smallestUnreceivedTick'[p]
  PROVE  FramesComplete'
<1>1. ASSUME NEW p \in Players, NEW k \in DOMAIN toSpoke'[p] PROVE FrameComplete(p, toSpoke[p][k])'
  <2>1. toSpoke'[p] = toSpoke[p] /\ k \in DOMAIN toSpoke[p]
    BY <1>1, EmptySequence DEF OnlyTakenFromSpokes
  <2> DEFINE f  == toSpoke[p][k]
             su == smallestUnreceivedTick[p]
  <2>2. FrameComplete(p, f) /\ FrameToSpokeSound(p, f) /\ FrameDecided(p, f)
    BY <2>1 DEF FramesComplete, SpokesInvariant, GameInvariant, WiresSound, LockstepInvariant, WiresDecided
  <2>3. /\ su \in Int /\ smallestUnreceivedTick'[p] \in Int /\ su <= smallestUnreceivedTick'[p]
        /\ DOMAIN f.flags \subseteq Int
        /\ \A q \in Players : netDeadTick[q] \in Int
    <3>1. su \in Int /\ \A q \in Players : netDeadTick[q] \in Int
      BY StepNumbers DEF SpokesInvariant
    <3>2. FirstTick \in Int /\ smallestUnsentTick - 1 \in Int
      BY Constants DEF SpokesInvariant, GameInvariant, HubInvariant, TypeOK
    <3>3. DOMAIN f.flags \subseteq Int
      BY <2>2, <3>2 DEF FrameToSpokeSound
    <3> QED BY <3>1, <3>3
  <2>4. \A death \in f.deaths : death[2] \in Int
    BY <2>2, <2>3 DEF FrameDecided
  <2> HIDE DEF f, su
  <2>5. /\ DOMAIN f.flags # {} => \E t \in DOMAIN f.flags : t <= smallestUnreceivedTick'[p]
        /\ \A death \in f.deaths : death[2] <= smallestUnreceivedTick'[p] \/ death[2] - 1 \in DOMAIN f.flags
    <3>1. \A t \in Int : t <= su => t <= smallestUnreceivedTick'[p]
      BY <2>3
    <3>2. /\ DOMAIN f.flags # {} => \E t \in DOMAIN f.flags : t <= su
          /\ \A death \in f.deaths : death[2] <= su \/ death[2] - 1 \in DOMAIN f.flags
      BY <2>2 DEF FrameComplete, f, su
    <3> QED BY <2>3, <2>4, <3>1, <3>2
  <2> QED BY <2>1, <2>5 DEF FrameComplete, f
<1> QED BY <1>1 DEF FramesComplete

\* A machine left alone by a step plays on.
LEMMA OtherPlaysOn ==
  ASSUME SpokesInvariant, UNCHANGED <<hubVars, madeUp>>, NEW r \in InGame, SameMachine(r),
         \A q \in InGame : HasReceived(r, q), PlaysItsOwn(r)
  PROVE  PlaysItsOwn(r)' /\ \A q \in InGame : HasReceived(r, q)'
<1>1. /\ smallestUnreceivedTick'[r] = smallestUnreceivedTick[r]
      /\ gameFlags'[r] = gameFlags[r] /\ spokeConnected'[r] = spokeConnected[r]
      /\ \A q, t : Decided(q, t)' = Decided(q, t)
  BY DEF SameMachine, Decided, hubVars, playerVars
<1>2. PlaysItsOwn(r)'
  BY <1>1 DEF PlaysItsOwn
<1>3. ASSUME NEW q \in InGame PROVE HasReceived(r, q)'
  <2>1. FirstDue(r)' = FirstDue(r) /\ GameWriteTick(r, q)' = GameWriteTick(r, q)
    BY <1>1 DEF FirstDue, GameWriteTick
  <2> QED BY <1>1, <2>1 DEF HasReceived
<1> QED BY <1>2, <1>3

LEMMA ReceiptKeepsPlay ==
  ASSUME ~BandwidthReduction, SpokesInvariant, SpokesSound', MachinesInvariant, PlayInvariant, QueuesHaveRoom,
         NEW p \in Players, ReceiptAction(p)
  PROVE  PlayInvariant'
<1>1. PICK k \in DOMAIN toSpoke[p] : SpokeReceives(p, toSpoke[p][k])
  BY DEF ReceiptAction
<1>2. UNCHANGED <<hubVars, madeUp>> /\ OnlyTakenFromSpokes
  BY DEF ReceiptAction
<1> DEFINE f == toSpoke[p][k]
<1>3. FrameToSpokeSound(p, f) /\ FrameDecided(p, f) /\ FrameFits(p, f)
  BY DEF SpokesInvariant, GameInvariant, WiresSound, LockstepInvariant, WiresDecided, DeathsInvariant, FramesFit
<1>4. p \in InGame /\ spokeConnected[p] /\ (InCompany(p) => Room(p))
  BY <1>1, <1>3, ReceiptKinds DEF SpokesInvariant, FrameFits, QueuesHaveRoom
<1>5. /\ PlaysItsOwn(p)' /\ \A q \in InGame : HasReceived(p, q)'
      /\ \A q \in InGame \ {p} : q \notin stillConnected'[p] => netDeadTick'[q] <= smallestUnreceivedTick'[p]
  BY <1>1, <1>2, <1>3, <1>4, ReceiptPlaysAll
<1>6. \A r \in Players \ {p} : /\ SameMachine(r) /\ stillConnected'[r] = stillConnected[r]
                               /\ outgoingReadTick'[r] = outgoingReadTick[r]
  <2>1. ASSUME NEW r \in Players \ {p} PROVE SameMachine(r) /\ stillConnected'[r] = stillConnected[r]
    BY <1>1, <1>3, OthersUntouched DEF SpokesInvariant, LinksInvariant
  <2>2. ASSUME NEW r \in Players \ {p} PROVE outgoingReadTick'[r] = outgoingReadTick[r]
    <3>1. outgoingReadTick' = [outgoingReadTick EXCEPT ![p] = outgoingReadTick'[p]]
      BY <1>1, <1>3, ReceivedGrows DEF SpokesInvariant
    <3> QED BY <3>1 DEF SpokesInvariant, GameInvariant, SpokesSound
  <2> QED BY <2>1, <2>2
<1>7. FramesComplete'
  <2>1. ASSUME NEW r \in Players
        PROVE  smallestUnreceivedTick'[r] \in Int /\ smallestUnreceivedTick[r] <= smallestUnreceivedTick'[r]
    <3>1. smallestUnreceivedTick'[r] \in FirstTick .. Horizon /\ FirstTick \in Int /\ Horizon \in Int
      BY Constants DEF SpokesSound
    <3>2. CASE r = p
      BY <1>1, <1>3, <3>1, <3>2, ReceivedGrows DEF SpokesInvariant
    <3>3. CASE r # p
      BY <1>6, <3>1, <3>3 DEF SameMachine
    <3> QED BY <3>2, <3>3
  <2> QED BY <1>2, <2>1, FramesStayComplete DEF PlayInvariant
<1>8. DeathsAreLate'
  BY <1>2 DEF PlayInvariant, DeathsAreLate, hubVars, playerVars, queueVars
<1>9. DeadStop'
  <2>1. ASSUME NEW r \in InGame, ToldAlone(r)', r \notin connected'
        PROVE  /\ outgoingReadTick'[r] <= netDeadTick'[r]
               /\ \A j \in DOMAIN toSpoke'[r] : toSpoke'[r][j].ack <= netDeadTick'[r]
    <3>1. r \in Players /\ r \notin connected /\ netDeadTick' = netDeadTick
      BY <1>2, <2>1 DEF InGame, hubVars, playerVars
    <3>2. toSpoke'[r] = toSpoke[r] \/ DOMAIN toSpoke'[r] = {}
      BY <1>2, <3>1, EmptySequence DEF OnlyTakenFromSpokes
    <3>3. \A q \in stillConnected[r] : q \in stillConnected'[r] \/ (r = p /\ \E death \in f.deaths : death[1] = q)
      <4>1. CASE r = p
        BY <1>1, <1>2, <4>1, ReceivesKeepsSound DEF SpokesInvariant
      <4>2. CASE r # p
        BY <1>6, <3>1, <4>2
      <4> QED BY <4>1, <4>2
    <3>4. ToldAlone(r)
      BY <2>1, <3>2, <3>3 DEF ToldAlone
    <3>5. /\ outgoingReadTick[r] <= netDeadTick[r]
          /\ \A j \in DOMAIN toSpoke[r] : toSpoke[r][j].ack <= netDeadTick[r]
      BY <3>1, <3>4 DEF PlayInvariant, DeadStop
    <3>6. outgoingReadTick'[r] <= netDeadTick[r]
      <4>1. CASE r # p
        BY <1>6, <3>1, <3>5, <4>1
      <4>2. CASE r = p
        <5>1. Acked(p, f) <= netDeadTick[p]
          BY <3>1, <3>4, <4>2, AckedByDeath DEF PlayInvariant, InGame
        <5>2. outgoingReadTick'[p] \in {outgoingReadTick[p], Acked(p, f)}
          BY <1>1, <1>3, ReceiptKinds DEF SpokesInvariant, GameInvariant, SpokesSound, TakesView
        <5> QED BY <3>5, <4>2, <5>1, <5>2
      <4> QED BY <4>1, <4>2
    <3> QED BY <3>1, <3>2, <3>5, <3>6
  <2> QED BY <2>1 DEF DeadStop
<1>10. DeathsTaken'
  <2>1. ASSUME NEW r \in InGame, NEW q \in InGame \ {r}, q \notin stillConnected'[r]
        PROVE  netDeadTick'[q] <= smallestUnreceivedTick'[r]
    <3>1. CASE r = p
      BY <1>5, <2>1, <3>1
    <3>2. CASE r # p
      <4>1. r \in Players /\ netDeadTick' = netDeadTick
        BY <1>2 DEF InGame, hubVars, playerVars
      <4> QED BY <1>6, <2>1, <3>2, <4>1 DEF PlayInvariant, DeathsTaken, SameMachine
    <3> QED BY <3>1, <3>2
  <2> QED BY <2>1 DEF DeathsTaken, InGame
<1>11. ASSUME NEW r \in InGame PROVE PlaysItsOwn(r)' /\ \A q \in InGame : HasReceived(r, q)'
  <2>1. CASE r = p
    BY <1>5, <2>1
  <2>2. CASE r # p
    BY <1>2, <1>6, <2>2, OtherPlaysOn DEF PlayInvariant, InGame
  <2> QED BY <2>1, <2>2
<1>12. LagsWithinQueue'
  <2>1. ASSUME NEW r \in InGame PROVE Wanted(r)' - smallestUnreceivedTick'[r] <= QueueSize
    <3>1. r \in Players /\ Wanted(r)' = Wanted(r)
      BY <1>2 DEF InGame, Wanted, hubVars, playerVars, sendVars
    <3>2. smallestUnreceivedTick[r] <= smallestUnreceivedTick'[r]
      BY <1>1, <1>3, <1>6, <3>1, ReceivedGrows, StepNumbers DEF SpokesInvariant, SameMachine
    <3>3. Wanted(r) \in Int /\ QueueSize \in Int
      BY <3>1, Constants DEF Wanted, SpokesInvariant, GameInvariant, HubInvariant, TypeOK
    <3>4. smallestUnreceivedTick'[r] \in Int /\ smallestUnreceivedTick[r] \in Int
      <4>1. smallestUnreceivedTick'[r] \in FirstTick .. Horizon /\ FirstTick \in Int /\ Horizon \in Int
        BY <3>1, Constants DEF SpokesSound
      <4> QED BY <3>1, <4>1, StepNumbers DEF SpokesInvariant
    <3>5. Wanted(r) - smallestUnreceivedTick[r] <= QueueSize
      BY DEF PlayInvariant, LagsWithinQueue
    <3> QED BY <3>1, <3>2, <3>3, <3>4, <3>5
  <2> QED BY <2>1 DEF LagsWithinQueue, InGame
<1> QED BY <1>7, <1>8, <1>9, <1>10, <1>11, <1>12 DEF PlayInvariant, InGame

\* A machine that takes nothing appends to its queues only once it is cut off.
LEMMA OwnStepExtends ==
  ASSUME SpokesSound, NEW p \in Players, OwnStep(p), UNCHANGED <<hubVars, madeUp>>,
         spokeConnected = [r \in Players |-> spokeConnected[r]]
  PROVE  OnlyExtends
<1>1. CASE SpokeTick(p)
  BY <1>1, TickOnlyExtends
<1>2. CASE SpokeGivesUp(p)
  <2>1. /\ UNCHANGED <<smallestUnreceivedTick, stillConnected, deadTick, gameFlags>>
        /\ spokeConnected' = [spokeConnected EXCEPT ![p] = FALSE]
    BY <1>2 DEF SpokeGivesUp, receivedVars
  <2> QED BY <2>1 DEF OnlyExtends
<1>3. CASE ForgetConfirmed(p) \/ GameAdvances(p) \/ SpokeCleanup(p)
  <2>1. UNCHANGED <<smallestUnreceivedTick, stillConnected, deadTick, gameFlags, spokeConnected>>
    BY <1>3 DEF ForgetConfirmed, GameAdvances, SpokeCleanup, receivedVars, viewVars
  <2> QED BY <2>1 DEF OnlyExtends
<1> QED BY <1>1, <1>2, <1>3 DEF OwnStep

LEMMA OwnKeepsPlay ==
  ASSUME SpokesInvariant, PlayInvariant, NEW p \in Players, OwnAction(p), SpokesSound'
  PROVE  PlayInvariant'
<1>1. /\ UNCHANGED <<hubVars, madeUp, toSpoke>> /\ OwnStep(p)
      /\ UNCHANGED <<smallestUnreceivedTick, outgoingReadTick, stillConnected>>
  BY OwnStepGrows DEF OwnAction, SpokesInvariant, LinksInvariant
<1>2. OnlyExtends
  BY <1>1, OwnStepExtends DEF SpokesInvariant, GameInvariant, LockstepInvariant, SpokesDecided
<1>3. /\ FramesComplete' /\ LagsWithinQueue' /\ DeathsAreLate' /\ DeadStop' /\ DeathsTaken'
  BY <1>1 DEF PlayInvariant, FramesComplete, FrameComplete, LagsWithinQueue, Wanted, DeathsAreLate,
              DeadStop, ToldAlone, DeathsTaken, hubVars, playerVars, queueVars, sendVars
<1>4. ASSUME NEW r \in InGame PROVE PlaysItsOwn(r)' /\ \A q \in InGame : HasReceived(r, q)'
  <2>1. r \in Players /\ (spokeConnected'[r] => spokeConnected[r])
    BY <1>2 DEF InGame, OnlyExtends
  <2>2. PlaysItsOwn(r)'
    <3>1. spokeConnected'[r] => gameFlags'[r][r] = gameFlags[r][r]
      BY <1>2, <2>1 DEF OnlyExtends
    <3> QED BY <2>1, <3>1 DEF PlayInvariant, PlaysItsOwn
  <2>3. ASSUME NEW q \in InGame PROVE HasReceived(r, q)'
    <3>1. q \in Players /\ Extends(gameFlags[r][q], gameFlags'[r][q])
      <4>1. q \in Players
        BY DEF InGame
      <4>2. gameFlags'[r][q] = gameFlags[r][q] \/ Extends(gameFlags[r][q], gameFlags'[r][q])
        BY <1>2, <2>1, <4>1 DEF OnlyExtends
      <4>3. Len(gameFlags[r][q]) \in Nat
        BY <2>1, <4>1, StepNumbers DEF SpokesInvariant
      <4>4. Extends(gameFlags[r][q], gameFlags[r][q])
        BY <4>3 DEF Extends
      <4> QED BY <4>1, <4>2, <4>4
    <3>2. HasReceived(r, q)
      BY DEF PlayInvariant
    <3>3. /\ Len(gameFlags[r][q]) \in Nat /\ Len(gameFlags'[r][q]) \in Nat
          /\ FirstDue(r) \in Int /\ StartingTick \in Int /\ smallestUnreceivedTick[r] \in Int
          /\ smallestUnreceivedTick[r] <= FirstDue(r)
      <4>1. Len(gameFlags'[r][q]) \in Nat
        BY <2>1, <3>1, SequenceLength DEF SpokesSound
      <4> QED BY <2>1, <3>1, <4>1, StepNumbers DEF SpokesInvariant
    <3>4. FirstDue(r)' = FirstDue(r)
      BY <1>1 DEF FirstDue
    <3>5. FirstDue(r) <= StartingTick + Len(gameFlags[r][q])
      BY <3>2 DEF HasReceived, GameWriteTick
    <3>6. FirstDue(r)' <= GameWriteTick(r, q)'
      <4>1. Len(gameFlags[r][q]) <= Len(gameFlags'[r][q])
        BY <3>1 DEF Extends
      <4>2. FirstDue(r) <= StartingTick + Len(gameFlags'[r][q])
        BY <3>3, <3>5, <4>1
      <4> QED BY <3>4, <4>2 DEF GameWriteTick
    <3>7. ASSUME NEW t \in StartingTick .. smallestUnreceivedTick'[r] - 1
          PROVE  gameFlags'[r][q][t - StartingTick + 1] = Decided(q, t)'
      <4>1. t \in StartingTick .. smallestUnreceivedTick[r] - 1
        BY <1>1
      <4>2. t - StartingTick + 1 \in 1 .. Len(gameFlags[r][q])
        BY <3>3, <3>5, <4>1
      <4>3. gameFlags'[r][q][t - StartingTick + 1] = gameFlags[r][q][t - StartingTick + 1]
        BY <3>1, <4>2 DEF Extends
      <4>4. Decided(q, t)' = Decided(q, t)
        BY <1>1 DEF Decided, hubVars, playerVars
      <4> QED BY <3>2, <4>1, <4>3, <4>4 DEF HasReceived
    <3> QED BY <3>6, <3>7 DEF HasReceived
  <2> QED BY <2>2, <2>3
<1> QED BY <1>3, <1>4 DEF PlayInvariant, InGame

LEMMA NothingKeepsPlay ==
  ASSUME SpokesInvariant, SpokesSound', PlayInvariant, NoAction
  PROVE  PlayInvariant'
<1>1. UNCHANGED <<hubVars, spokeVars, madeUp>> /\ OnlyTakenFromSpokes
  BY DEF NoAction
<1>2. UNCHANGED <<smallestUnreceivedTick, outgoingReadTick, stillConnected, gameFlags, spokeConnected>>
  BY <1>1 DEF spokeVars, spokeQueueVars, viewVars, receivedVars
<1>3. FramesComplete'
  <2>1. ASSUME NEW r \in Players
        PROVE  smallestUnreceivedTick'[r] \in Int /\ smallestUnreceivedTick[r] <= smallestUnreceivedTick'[r]
    BY <1>2, StepNumbers DEF SpokesInvariant
  <2> QED BY <1>1, <2>1, FramesStayComplete DEF PlayInvariant
<1>4. LagsWithinQueue' /\ DeathsAreLate' /\ DeathsTaken'
  BY <1>1, <1>2 DEF PlayInvariant, LagsWithinQueue, Wanted, DeathsAreLate, DeathsTaken, hubVars, playerVars,
                    queueVars, sendVars
<1>5. DeadStop'
  <2>1. ASSUME NEW r \in InGame, ToldAlone(r)', r \notin connected'
        PROVE  /\ outgoingReadTick[r] <= netDeadTick[r]
               /\ \A j \in DOMAIN toSpoke'[r] : toSpoke'[r][j].ack <= netDeadTick[r]
    <3>1. toSpoke'[r] = toSpoke[r] \/ DOMAIN toSpoke'[r] = {}
      BY <1>1, EmptySequence DEF InGame, OnlyTakenFromSpokes
    <3>2. ToldAlone(r)
      BY <1>2, <2>1, <3>1 DEF ToldAlone
    <3> QED BY <1>1, <2>1, <3>1, <3>2 DEF PlayInvariant, DeadStop, hubVars, playerVars
  <2> QED BY <1>1, <1>2, <2>1 DEF DeadStop, hubVars, playerVars
<1>6. ASSUME NEW r \in InGame PROVE PlaysItsOwn(r)' /\ \A q \in InGame : HasReceived(r, q)'
  <2>1. SameMachine(r)
    BY <1>1 DEF SameMachine, spokeVars, spokeQueueVars, receivedVars
  <2> QED BY <1>1, <2>1, OtherPlaysOn DEF PlayInvariant
<1> QED BY <1>3, <1>4, <1>5, <1>6 DEF PlayInvariant, InGame

LEMMA PlayStep ==
  ASSUME ~Standalone, ~BandwidthReduction, SpokesInvariant, MachinesInvariant, PlayInvariant, QueuesHaveRoom,
         [GameNext]_gameVars
  PROVE  PlayInvariant'
<1>1. SpokesInvariant' /\ SpokesSound'
  BY SpokesStep DEF SpokesInvariant, GameInvariant
<1> QED BY <1>1, StepKinds, HubKeepsPlay, ReceiptKeepsPlay, OwnKeepsPlay, NothingKeepsPlay DEF SpokesInvariant

LEMMA PlayBegins == ASSUME ~Standalone, GameInit PROVE PlayInvariant
<1>1. /\ SpokeInit(connected) /\ connected = InGame /\ Init
      /\ toSpoke = [p \in Players |-> << >>]
  BY DEF GameInit, InGame
<1>2. FirstTick \in Int /\ StartingTick \in Int /\ FirstTick <= StartingTick /\ QueueSize \in Nat /\ Len(<< >>) = 0
  BY Constants, HubConstants DEF FirstTick
<1>3. /\ smallestUnsentTick = FirstTick /\ smallestIncompleteTick = FirstTick
      /\ netDeadTick = [i \in Players |-> FirstTick - 1]
  BY <1>1 DEF Init
<1>4. /\ smallestUnreceivedTick = [p \in Players |-> FirstTick]
      /\ stillConnected = [p \in Players |-> InGame] /\ gameFlags = [p \in Players |-> [q \in Players |-> << >>]]
  BY <1>1 DEF SpokeInit
<1>5. FramesComplete /\ DeadStop /\ DeathsTaken
  BY <1>1, <1>4, EmptySequence DEF FramesComplete, DeadStop, DeathsTaken, InGame
<1>6. DeathsAreLate /\ LagsWithinQueue
  BY <1>1, <1>2, <1>3, <1>4 DEF DeathsAreLate, LagsWithinQueue, Wanted, InGame
<1>7. ASSUME NEW p \in InGame PROVE PlaysItsOwn(p) /\ \A q \in InGame : HasReceived(p, q)
  <2>1. PlaysItsOwn(p)
    BY <1>2, <1>4 DEF PlaysItsOwn, InGame
  <2>2. ASSUME NEW q \in InGame PROVE HasReceived(p, q)
    <3>1. FirstDue(p) = StartingTick
      BY <1>2, <1>4 DEF FirstDue, Larger, InGame
    <3>2. GameWriteTick(p, q) = StartingTick
      BY <1>2, <1>4 DEF GameWriteTick, InGame
    <3>3. StartingTick .. smallestUnreceivedTick[p] - 1 = {}
      BY <1>2, <1>4 DEF InGame
    <3> QED BY <1>2, <3>1, <3>2, <3>3 DEF HasReceived
  <2> QED BY <2>1, <2>2
<1> QED BY <1>5, <1>6, <1>7 DEF PlayInvariant

-----------------------------------------------------------------------------

\* As long as the action queues have room, what each machine plays is an invariant of the game.
LEMMA PlayHolds ==
  ASSUME ~Standalone, ~BandwidthReduction
  PROVE  GameSpec /\ []QueuesHaveRoom => [](SpokesInvariant /\ MachinesInvariant /\ PlayInvariant)
<1>1. GameInit => SpokesInvariant /\ MachinesInvariant /\ PlayInvariant
  BY SpokesBegin, StepBegins, PlayBegins
<1>2. SpokesInvariant /\ MachinesInvariant /\ PlayInvariant /\ QueuesHaveRoom /\ [GameNext]_gameVars
        => (SpokesInvariant /\ MachinesInvariant /\ PlayInvariant)'
  BY SpokesStep, StepHolds, PlayStep
<1> QED BY <1>1, <1>2, PTL DEF GameSpec

LEMMA PlayIsLockstep == SpokesInvariant /\ PlayInvariant => Lockstep
<1> SUFFICES ASSUME SpokesInvariant, PlayInvariant, NEW p \in InGame, NEW q \in InGame,
                    NEW t \in StartingTick .. smallestUnreceivedTick[p] - 1
             PROVE  t < smallestIncompleteTick /\ gameFlags[p][q][t - StartingTick + 1] = Decided(q, t)
  BY DEF Lockstep, PlaysWhatIsDecided
<1>1. t < smallestIncompleteTick
  BY ReceivedIsComplete DEF SpokesInvariant, InGame
<1>2. gameFlags[p][q][t - StartingTick + 1] = Decided(q, t)
  BY DEF PlayInvariant, HasReceived
<1> QED BY <1>1, <1>2

\* Every machine plays what the hub has settled, those included that go on alone and fill in the
\* flags of the dead by themselves (lines 425-470 of the spoke), as long as the action queues of
\* machines in company have room for what the hub has sent to them.
THEOREM RoomyGameIsInLockstep ==
  ASSUME ~Standalone, ~BandwidthReduction PROVE GameSpec /\ []QueuesHaveRoom => []Lockstep
BY PlayHolds, PlayIsLockstep, PTL

\* The queues have room if they can hold what the game leaves in them, and the hub's queue on top.
GamesKeepUp ==
  \A p \in InGame : InCompany(p) /\ spokeConnected[p] =>
    \A q \in InGame : Len(gameFlags[p][q]) - gameTicks[p] + QueueSize <= ActionQueueSize

LEMMA RoomForAHubQueue ==
  ASSUME SpokesInvariant, PlayInvariant, GamesKeepUp
  PROVE  QueuesHaveRoom
<1> SUFFICES ASSUME NEW p \in InGame, InCompany(p), spokeConnected[p] PROVE Room(p)
  BY DEF QueuesHaveRoom
<1>1. p \in Players /\ SpokesSound
  BY DEF InGame, SpokesInvariant, GameInvariant
<1>2. PICK q \in InGame : QueueSpace(p) = ActionQueueSize - (Len(gameFlags[p][q]) - gameTicks[p])
  BY <1>1, QueueSpaceOfSomebody DEF InGame
<1>3. /\ Len(gameFlags[p][q]) \in Int /\ gameTicks[p] \in Int /\ ActionQueueSize \in Int /\ QueueSize \in Int
  BY <1>1, SpokeNumbers, Constants DEF InGame
<1>4. Len(gameFlags[p][q]) - gameTicks[p] + QueueSize <= ActionQueueSize
  BY DEF GamesKeepUp
<1>5. Wanted(p) - smallestUnreceivedTick[p] <= QueueSize
  BY DEF PlayInvariant, LagsWithinQueue
<1>6. Wanted(p) - smallestUnreceivedTick[p] \in Int
  <2>1. Wanted(p) \in Int
    BY <1>1, Constants DEF Wanted, SpokesInvariant, GameInvariant, HubInvariant, TypeOK
  <2>2. smallestUnreceivedTick[p] \in Int
    BY <1>1, StepNumbers DEF SpokesInvariant
  <2> QED BY <2>1, <2>2
<1>7. QueueSize <= QueueSpace(p) /\ QueueSpace(p) \in Int
  BY <1>2, <1>3, <1>4
<1> QED BY <1>3, <1>5, <1>6, <1>7 DEF Room

\* Every machine plays what the hub has settled as long as the games of the machines in company
\* take their flags fast enough to leave room for as many ticks as the hub's queue holds.
THEOREM GameThatKeepsUpIsInLockstep ==
  ASSUME ~Standalone, ~BandwidthReduction PROVE GameSpec /\ []GamesKeepUp => []Lockstep
<1>1. GameInit => SpokesInvariant /\ MachinesInvariant /\ PlayInvariant
  BY SpokesBegin, StepBegins, PlayBegins
<1>2. SpokesInvariant /\ MachinesInvariant /\ PlayInvariant /\ GamesKeepUp /\ [GameNext]_gameVars
        => (SpokesInvariant /\ MachinesInvariant /\ PlayInvariant)'
  BY SpokesStep, StepHolds, PlayStep, RoomForAHubQueue
<1> QED BY <1>1, <1>2, PlayIsLockstep, PTL DEF GameSpec
LEMMA Beginnings == FirstTick \in Int /\ StartingTick \in Int /\ Horizon \in Int /\ FirstTick <= StartingTick
<1>1. StartingTick \in Int /\ PregameTicks \in Nat /\ Horizon \in Int
  BY HubConstants
<1> QED BY <1>1 DEF FirstTick

LEMMA TicksReached ==
  ASSUME SpokesInvariant, NEW p \in Players
  PROVE  /\ smallestUnsentTick \in Int /\ smallestIncompleteTick \in Int
         /\ smallestUnreceivedTick[p] \in Int /\ FirstTick <= smallestUnreceivedTick[p]
         /\ smallestUnreceivedTick[p] <= smallestUnsentTick
         /\ smallestUnsentTick <= smallestIncompleteTick /\ smallestIncompleteTick <= Horizon
<1>1. /\ smallestUnsentTick \in Int /\ smallestIncompleteTick \in Int
      /\ smallestUnsentTick <= smallestIncompleteTick /\ smallestIncompleteTick <= Horizon
  BY Constants DEF SpokesInvariant, GameInvariant, HubInvariant, TypeOK, QueuesLineUp
<1>2. smallestUnreceivedTick[p] \in FirstTick .. Horizon /\ smallestUnreceivedTick[p] <= smallestUnsentTick
  BY DEF SpokesInvariant, GameInvariant, SpokesSound
<1> QED BY <1>1, <1>2, Constants

NumbersReached == smallestIncompleteTick \in Int /\ \A p \in Players : smallestUnreceivedTick[p] \in Int

LEMMA TicksReachedNext == SpokesInvariant' => NumbersReached'
<1>1. SpokesInvariant => NumbersReached
  <2>1. SpokesInvariant => smallestIncompleteTick \in Int
    BY Constants DEF SpokesInvariant, GameInvariant, HubInvariant, TypeOK
  <2> QED BY <2>1, TicksReached DEF NumbersReached
<1> QED BY <1>1, PTL

LEMMA RoomInAShortGame ==
  ASSUME SpokesInvariant, MachinesInvariant, Horizon - FirstTick <= ActionQueueSize
  PROVE  QueuesHaveRoom
<1> SUFFICES ASSUME NEW p \in InGame, InCompany(p), spokeConnected[p] PROVE Room(p)
  BY DEF QueuesHaveRoom
<1>1. p \in Players /\ SpokesSound /\ GameInvariant
  BY DEF InGame, SpokesInvariant, GameInvariant
<1>2. PICK q \in InGame : QueueSpace(p) = ActionQueueSize - (Len(gameFlags[p][q]) - gameTicks[p])
  BY <1>1, QueueSpaceOfSomebody DEF InGame
<1>3. StartingTick + Len(gameFlags[p][q]) = FirstDue(p)
  <2>1. QueuesAgree(p) /\ ExpectsItsOwn(p)
    BY DEF MachinesInvariant, StaysInStep
  <2>2. ~Alone(p)
    BY <2>1 DEF InCompany, Alone, QueuesAgree
  <2> QED BY <2>1, <2>2 DEF ExpectsItsOwn, GameWriteTick
<1>4. /\ Len(gameFlags[p][q]) \in Nat /\ gameTicks[p] \in Nat /\ ActionQueueSize \in Int
      /\ Horizon \in Int /\ FirstTick \in Int /\ StartingTick \in Int /\ FirstTick <= StartingTick
  <2>1. Len(gameFlags[p][q]) \in Nat /\ ActionQueueSize \in Int
    BY <1>1, SpokeNumbers DEF InGame
  <2>2. gameTicks[p] \in Nat
    BY <1>1 DEF SpokesSound
  <2> QED BY <2>1, <2>2, Beginnings
<1>5. /\ smallestUnreceivedTick[p] \in Int /\ FirstTick <= smallestUnreceivedTick[p]
      /\ FirstDue(p) = smallestUnreceivedTick[p] \/ FirstDue(p) = StartingTick
  BY <1>1, StepNumbers, TicksReached
<1>6. Wanted(p) \in Int /\ Wanted(p) <= Horizon
  BY <1>1, Constants DEF Wanted, GameInvariant, HubInvariant, TypeOK
<1>7. Wanted(p) - smallestUnreceivedTick[p] <= QueueSpace(p)
  <2>1. CASE FirstDue(p) = smallestUnreceivedTick[p]
    <3>1. QueueSpace(p) = ActionQueueSize + gameTicks[p] + StartingTick - smallestUnreceivedTick[p]
      <4>1. Len(gameFlags[p][q]) = smallestUnreceivedTick[p] - StartingTick
        BY <1>3, <1>4, <2>1
      <4>2. smallestUnreceivedTick[p] \in Int
        BY <1>5
      <4> QED BY <1>2, <1>4, <4>1, <4>2
    <3>2. Wanted(p) <= ActionQueueSize + gameTicks[p] + StartingTick
      <4>1. Wanted(p) <= ActionQueueSize + FirstTick
        BY <1>4, <1>6
      <4>2. FirstTick <= gameTicks[p] + StartingTick
        BY <1>4
      <4> QED BY <1>4, <1>6, <4>1, <4>2
    <3> QED BY <1>4, <1>5, <1>6, <3>1, <3>2
  <2>2. CASE FirstDue(p) = StartingTick
    <3>1. QueueSpace(p) = ActionQueueSize + gameTicks[p]
      BY <1>2, <1>3, <1>4, <1>5, <2>2
    <3>2. Wanted(p) - smallestUnreceivedTick[p] <= ActionQueueSize
      BY <1>4, <1>5, <1>6
    <3> QED BY <1>4, <1>5, <1>6, <3>1, <3>2
  <2> QED BY <1>5, <2>1, <2>2
<1> QED BY <1>7 DEF Room

\* Every machine plays what the hub has settled in a game with no more ticks than an action queue
\* holds, even if nobody's game takes any of them.
THEOREM ShortGameIsInLockstep ==
  ASSUME ~Standalone, ~BandwidthReduction, Horizon - FirstTick <= ActionQueueSize
  PROVE  GameSpec => []Lockstep
<1>1. GameInit => SpokesInvariant /\ MachinesInvariant /\ PlayInvariant
  BY SpokesBegin, StepBegins, PlayBegins
<1>2. SpokesInvariant /\ MachinesInvariant /\ PlayInvariant /\ [GameNext]_gameVars
        => (SpokesInvariant /\ MachinesInvariant /\ PlayInvariant)'
  BY SpokesStep, StepHolds, PlayStep, RoomInAShortGame
<1> QED BY <1>1, <1>2, PlayIsLockstep, PTL DEF GameSpec

-----------------------------------------------------------------------------
(* The lockstep game.                                                        *)

\* How many ticks of the game are settled, and how many p has received.
Completed == Larger(smallestIncompleteTick - StartingTick, 0)
Received(p) == Larger(smallestUnreceivedTick[p] - StartingTick, 0)

LEMMA CountsAreNumbers ==
  ASSUME SpokesInvariant, NEW p \in InGame
  PROVE  /\ Completed \in Nat /\ Received(p) \in Nat
         /\ \A k \in 1 .. Completed : StartingTick + k - 1 \in Ticks /\ StartingTick + k - 1 < smallestIncompleteTick
         /\ \A k \in 1 .. Received(p) : StartingTick + k - 1 \in StartingTick .. smallestUnreceivedTick[p] - 1
<1>1. /\ smallestIncompleteTick \in Int /\ smallestIncompleteTick <= Horizon
      /\ smallestUnreceivedTick[p] \in Int
      /\ Horizon \in Int /\ FirstTick \in Int /\ StartingTick \in Int /\ FirstTick <= StartingTick
  BY TicksReached, Beginnings DEF InGame
<1>2. Completed \in Nat /\ Received(p) \in Nat
  BY <1>1 DEF Completed, Received, Larger
<1>3. ASSUME NEW k \in 1 .. Completed
      PROVE  StartingTick + k - 1 \in Ticks /\ StartingTick + k - 1 < smallestIncompleteTick
  BY <1>1, Constants DEF Completed, Larger
<1>4. ASSUME NEW k \in 1 .. Received(p)
      PROVE  StartingTick + k - 1 \in StartingTick .. smallestUnreceivedTick[p] - 1
  BY <1>1 DEF Received, Larger
<1> QED BY <1>2, <1>3, <1>4

\* A decision for every tick that is complete.
Decisions == [InGame -> {NetDeadFlags} \cup {Real(t) : t \in Ticks} \cup {MadeUp(t) : t \in Ticks}]

LEMMA SettledIsSettled ==
  ASSUME SpokesInvariant, Completed \in Nat,
         \A k \in 1 .. Completed : StartingTick + k - 1 \in Ticks
  PROVE  /\ Settled \in Seq(Decisions) /\ Len(Settled) = Completed
         /\ Settled = [k \in 1 .. Completed |-> [q \in InGame |-> Decided(q, StartingTick + k - 1)]]
<1>1. Settled = [k \in 1 .. Completed |-> [q \in InGame |-> Decided(q, StartingTick + k - 1)]]
  BY DEF Settled, Completed
<1>2. ASSUME NEW t \in Ticks PROVE [q \in InGame |-> Decided(q, t)] \in Decisions
  BY DEF Decided, Decisions
<1>3. Settled \in [1 .. Completed -> Decisions]
  BY <1>1, <1>2
<1>4. Settled \in Seq(Decisions)
  BY <1>3
<1>5. DOMAIN Settled = 1 .. Completed /\ DOMAIN Settled = 1 .. Len(Settled) /\ Len(Settled) \in Nat
  BY <1>1, <1>4
<1> QED BY <1>1, <1>4, <1>5

LEMMA PlayedIsSettled ==
  ASSUME SpokesInvariant, Lockstep, NEW p \in InGame
  PROVE  /\ Received(p) \in 0 .. Completed /\ Completed \in Nat
         /\ Settled \in Seq(Decisions) /\ Len(Settled) = Completed
         /\ Played[p] = [k \in 1 .. Received(p) |-> Settled[k]]
<1>1. /\ Completed \in Nat /\ Received(p) \in Nat
      /\ \A k \in 1 .. Completed : StartingTick + k - 1 \in Ticks /\ StartingTick + k - 1 < smallestIncompleteTick
      /\ \A k \in 1 .. Received(p) : StartingTick + k - 1 \in StartingTick .. smallestUnreceivedTick[p] - 1
  BY CountsAreNumbers
<1>2. /\ Settled \in Seq(Decisions) /\ Len(Settled) = Completed
      /\ Settled = [k \in 1 .. Completed |-> [q \in InGame |-> Decided(q, StartingTick + k - 1)]]
  BY <1>1, SettledIsSettled
<1>3. Received(p) <= Completed
  <2>1. /\ smallestIncompleteTick \in Int /\ smallestUnreceivedTick[p] \in Int /\ StartingTick \in Int
        /\ smallestUnreceivedTick[p] <= smallestIncompleteTick
    BY TicksReached, Beginnings DEF InGame
  <2> QED BY <2>1 DEF Received, Completed, Larger
<1>4. Played[p] = [k \in 1 .. Received(p) |-> [q \in InGame |-> gameFlags[p][q][k]]]
  BY DEF Played, Received
<1>5. ASSUME NEW k \in 1 .. Received(p)
      PROVE  [q \in InGame |-> gameFlags[p][q][k]] = Settled[k]
  <2>1. k \in 1 .. Completed /\ k \in Int /\ StartingTick \in Int
    BY <1>1, <1>3, Constants
  <2>2. Settled[k] = [q \in InGame |-> Decided(q, StartingTick + k - 1)]
    BY <1>2, <2>1
  <2>3. ASSUME NEW q \in InGame PROVE gameFlags[p][q][k] = Decided(q, StartingTick + k - 1)
    <3> DEFINE t == StartingTick + k - 1
    <3>1. gameFlags[p][q][t - StartingTick + 1] = Decided(q, t)
      BY <1>1 DEF Lockstep, PlaysWhatIsDecided
    <3>2. t - StartingTick + 1 = k
      BY <2>1
    <3> QED BY <3>1, <3>2
  <2> QED BY <2>2, <2>3
<1>6. Received(p) \in 0 .. Completed
  BY <1>1, <1>3
<1>7. Played[p] = [k \in 1 .. Received(p) |-> Settled[k]]
  BY <1>4, <1>5
<1> QED BY <1>1, <1>2, <1>6, <1>7

\* What is played is the beginning of what is settled.
PlaysSettled ==
  /\ Completed \in Nat
  /\ \A k \in 1 .. Completed : StartingTick + k - 1 \in Ticks /\ StartingTick + k - 1 < smallestIncompleteTick
  /\ Settled \in Seq(Decisions) /\ Len(Settled) = Completed
  /\ Settled = [k \in 1 .. Completed |-> [q \in InGame |-> Decided(q, StartingTick + k - 1)]]
  /\ \A p \in InGame : Received(p) \in 0 .. Completed
  /\ Played = [p \in InGame |-> [k \in 1 .. Received(p) |-> Settled[k]]]

LEMMA LockstepPlaysSettled == SpokesInvariant /\ Lockstep => PlaysSettled
<1> SUFFICES ASSUME SpokesInvariant, Lockstep PROVE PlaysSettled
  OBVIOUS
<1>1. Completed \in Nat /\ \A k \in 1 .. Completed : StartingTick + k - 1 \in Ticks /\ StartingTick + k - 1 < smallestIncompleteTick
  <2>1. PICK p \in InGame : TRUE
    BY DEF SpokesInvariant, GameInvariant, SpokesSound, InGame
  <2> QED BY <2>1, CountsAreNumbers
<1>2. /\ Settled \in Seq(Decisions) /\ Len(Settled) = Completed
      /\ Settled = [k \in 1 .. Completed |-> [q \in InGame |-> Decided(q, StartingTick + k - 1)]]
  BY <1>1, SettledIsSettled
<1>3. \A p \in InGame : Received(p) \in 0 .. Completed /\ Played[p] = [k \in 1 .. Received(p) |-> Settled[k]]
  BY PlayedIsSettled
<1>4. Played = [p \in InGame |-> Played[p]]
  BY DEF Played
<1> QED BY <1>1, <1>2, <1>3, <1>4 DEF PlaysSettled

LEMMA LockstepPlaysSettledNext == SpokesInvariant' /\ Lockstep' => PlaysSettled'
<1>1. SpokesInvariant /\ Lockstep => PlaysSettled
  BY LockstepPlaysSettled
<1> QED BY <1>1, PTL

LEMMA BeginningOf ==
  ASSUME NEW S, NEW s \in Seq(S), NEW n \in 0 .. Len(s)
  PROVE  SubSeq(s, 1, n) = [k \in 1 .. n |-> s[k]]
<1>1. SubSeq(s, 1, n) \in Seq(S) /\ Len(SubSeq(s, 1, n)) = n
  OBVIOUS
<1>2. \A k \in 1 .. n : SubSeq(s, 1, n)[k] = s[k]
  OBVIOUS
<1>3. SubSeq(s, 1, n) = [k \in DOMAIN SubSeq(s, 1, n) |-> SubSeq(s, 1, n)[k]] /\ DOMAIN SubSeq(s, 1, n) = 1 .. n
  BY <1>1
<1> QED BY <1>2, <1>3

LEMMA CountsGrow ==
  ASSUME NEW a \in Int, NEW b \in Int, NEW c \in Int, a <= b
  PROVE  Larger(a - c, 0) <= Larger(b - c, 0)
BY DEF Larger

\* The hub settles ticks, one or more at a time, and nobody plays.
LEMMA HubSettles ==
  ASSUME PlaysSettled, PlaysSettled', SpokesInvariant, SpokesInvariant', HubAction
  PROVE  [Game!LockstepNext]_<<Settled, Played>>
<1>1. /\ SettledStands /\ UNCHANGED <<smallestUnreceivedTick, gameFlags>>
      /\ smallestIncompleteTick <= smallestIncompleteTick'
  BY DEF HubAction, HubMoves, spokeVars, receivedVars
<1>2. Played' = Played
  BY <1>1 DEF Played
<1>3. Completed \in Nat /\ Completed' \in Nat /\ Completed <= Completed'
  <2>1. smallestIncompleteTick \in Int /\ smallestIncompleteTick' \in Int /\ StartingTick \in Int
    <3>1. \E p \in Players : TRUE
      BY DEF SpokesInvariant, GameInvariant, SpokesSound
    <3> QED BY <3>1, TicksReached, TicksReachedNext, Beginnings DEF NumbersReached
  <2>2. Completed <= Completed'
    <3>1. Completed = Larger(smallestIncompleteTick - StartingTick, 0)
          /\ Completed' = Larger(smallestIncompleteTick' - StartingTick, 0)
      BY DEF Completed
    <3> QED BY <1>1, <2>1, <3>1, CountsGrow
  <2> QED BY <2>2 DEF PlaysSettled
<1>4. ASSUME NEW k \in 1 .. Completed PROVE Settled'[k] = Settled[k]
  <2>1. k \in 1 .. Completed' /\ StartingTick + k - 1 \in Ticks /\ StartingTick + k - 1 < smallestIncompleteTick
    BY <1>3 DEF PlaysSettled
  <2>2. /\ Settled[k] = [q \in InGame |-> Decided(q, StartingTick + k - 1)]
        /\ Settled'[k] = [q \in InGame |-> Decided(q, StartingTick + k - 1)']
    BY <2>1 DEF PlaysSettled
  <2>3. \A q \in InGame : Decided(q, StartingTick + k - 1)' = Decided(q, StartingTick + k - 1)
    BY <1>1, <2>1 DEF SettledStands, InGame
  <2> QED BY <2>2, <2>3
<1>5. CASE Completed' = Completed
  <2>1. Settled' = Settled
    BY <1>4, <1>5 DEF PlaysSettled
  <2> QED BY <1>2, <2>1
<1>6. CASE Completed' # Completed
  <2>1. Game!IsPrefixOf(Settled, Settled') /\ Settled' # Settled
    BY <1>3, <1>4, <1>6 DEF PlaysSettled, Game!IsPrefixOf
  <2>2. Game!Settle
    BY <1>2, <2>1 DEF Game!Settle, PlaysSettled, Decisions
  <2> QED BY <2>2 DEF Game!LockstepNext
<1> QED BY <1>5, <1>6

\* A machine that has received more goes on to a later tick.
LEMMA MachinePlays ==
  ASSUME PlaysSettled, PlaysSettled', SpokesInvariant, SpokesInvariant', UNCHANGED <<hubVars, madeUp>>,
         NEW p \in Players, smallestUnreceivedTick[p] <= smallestUnreceivedTick'[p],
         \A r \in Players \ {p} : smallestUnreceivedTick'[r] = smallestUnreceivedTick[r]
  PROVE  [Game!LockstepNext]_<<Settled, Played>>
<1>1. Settled' = Settled /\ Completed' = Completed
  BY DEF Settled, Completed, Decided, hubVars, playerVars, queueVars, sendVars
<1>2. ASSUME NEW r \in InGame \ {p} PROVE Received(r)' = Received(r)
  BY DEF Received, InGame
<1>3. CASE p \notin InGame \/ Received(p)' = Received(p)
  <2>1. \A r \in InGame : Received(r)' = Received(r)
    BY <1>2, <1>3
  <2>2. Played' = Played
    BY <1>1, <2>1 DEF PlaysSettled
  <2> QED BY <1>1, <2>2
<1>4. CASE p \in InGame /\ Received(p)' # Received(p)
  <2>1. Received(p) \in 0 .. Completed /\ Received(p)' \in 0 .. Completed /\ Completed \in Nat
    BY <1>1, <1>4 DEF PlaysSettled
  <2>2. Received(p) < Received(p)'
    <3>1. smallestUnreceivedTick[p] \in Int /\ smallestUnreceivedTick'[p] \in Int /\ StartingTick \in Int
      BY TicksReached, TicksReachedNext, Beginnings DEF NumbersReached
    <3>2. Received(p) <= Received(p)'
      <4>1. Received(p) = Larger(smallestUnreceivedTick[p] - StartingTick, 0)
            /\ Received(p)' = Larger(smallestUnreceivedTick'[p] - StartingTick, 0)
        BY DEF Received
      <4> QED BY <3>1, <4>1, CountsGrow
    <3> QED BY <1>4, <2>1, <3>2
  <2>3. Len(Played[p]) = Received(p)
    <3>1. Played[p] = [k \in 1 .. Received(p) |-> Settled[k]] /\ Received(p) \in 0 .. Len(Settled)
      BY <1>4, <2>1 DEF PlaysSettled
    <3>2. Played[p] = SubSeq(Settled, 1, Received(p))
      BY <3>1, BeginningOf DEF PlaysSettled
    <3> QED BY <3>1, <3>2 DEF PlaysSettled
  <2>4. Played' = [Played EXCEPT ![p] = SubSeq(Settled, 1, Received(p)')]
    <3>1. SubSeq(Settled, 1, Received(p)') = [k \in 1 .. Received(p)' |-> Settled[k]]
      BY <2>1, BeginningOf DEF PlaysSettled
    <3>2. \A r \in InGame \ {p} : Played'[r] = Played[r]
      BY <1>1, <1>2 DEF PlaysSettled
    <3>3. Played'[p] = SubSeq(Settled, 1, Received(p)')
      BY <1>1, <1>4, <3>1 DEF PlaysSettled
    <3>4. Played = [r \in InGame |-> Played[r]] /\ Played' = [r \in InGame |-> Played'[r]]
      BY DEF Played
    <3> QED BY <1>4, <3>2, <3>3, <3>4
  <2>5. Received(p)' \in Len(Played[p]) + 1 .. Len(Settled)
    BY <2>1, <2>2, <2>3 DEF PlaysSettled
  <2>6. Game!Play(p)
    BY <1>1, <2>4, <2>5 DEF Game!Play
  <2> QED BY <1>4, <2>6 DEF Game!LockstepNext
<1> QED BY <1>3, <1>4

LEMMA GamePlaysLockstep ==
  ASSUME ~Standalone, SpokesInvariant, SpokesInvariant', Lockstep, Lockstep', [GameNext]_gameVars
  PROVE  [Game!LockstepNext]_<<Settled, Played>>
<1>1. PlaysSettled /\ PlaysSettled'
  BY LockstepPlaysSettled, LockstepPlaysSettledNext
<1>2. CASE HubAction
  BY <1>1, <1>2, HubSettles
<1>3. CASE NoAction
  <2>1. UNCHANGED <<hubVars, spokeVars, madeUp>>
    BY <1>3 DEF NoAction
  <2>2. UNCHANGED <<Settled, Played>>
    BY <2>1 DEF Settled, Played, Decided, hubVars, playerVars, queueVars, sendVars, spokeVars, receivedVars
  <2> QED BY <2>2
<1>4. ASSUME NEW p \in Players, OwnAction(p) PROVE [Game!LockstepNext]_<<Settled, Played>>
  <2>1. UNCHANGED <<hubVars, madeUp, smallestUnreceivedTick>>
    BY <1>4, OwnStepGrows DEF OwnAction, SpokesInvariant, LinksInvariant
  <2>2. smallestUnreceivedTick[p] <= smallestUnreceivedTick'[p]
    BY <2>1, StepNumbers DEF SpokesInvariant
  <2> QED BY <1>1, <2>1, <2>2, MachinePlays
<1>5. ASSUME NEW p \in Players, ReceiptAction(p) PROVE [Game!LockstepNext]_<<Settled, Played>>
  <2>1. PICK k \in DOMAIN toSpoke[p] : SpokeReceives(p, toSpoke[p][k])
    BY <1>5 DEF ReceiptAction
  <2>2. /\ FrameToSpokeSound(p, toSpoke[p][k]) /\ FrameDecided(p, toSpoke[p][k])
        /\ FrameFits(p, toSpoke[p][k])
    BY DEF SpokesInvariant, GameInvariant, WiresSound, LockstepInvariant, WiresDecided, DeathsInvariant, FramesFit
  <2>3. /\ smallestUnreceivedTick[p] <= smallestUnreceivedTick'[p]
        /\ smallestUnreceivedTick' = [smallestUnreceivedTick EXCEPT ![p] = smallestUnreceivedTick'[p]]
    BY <2>1, <2>2, ReceivedGrows DEF SpokesInvariant
  <2>4. \A r \in Players \ {p} : smallestUnreceivedTick'[r] = smallestUnreceivedTick[r]
    BY <2>3 DEF SpokesInvariant, GameInvariant, SpokesSound
  <2> QED BY <1>1, <1>5, <2>3, <2>4, MachinePlays DEF ReceiptAction
<1> QED BY <1>2, <1>3, <1>4, <1>5, StepKinds DEF SpokesInvariant

LEMMA LockstepGameBegins == ASSUME GameInit PROVE Game!LockstepInit
<1>1. /\ smallestIncompleteTick = FirstTick /\ smallestUnreceivedTick = [p \in Players |-> FirstTick]
      /\ FirstTick \in Int /\ StartingTick \in Int /\ FirstTick <= StartingTick
  BY Constants, HubConstants DEF GameInit, Init, SpokeInit, FirstTick
<1>2. Completed = 0 /\ \A p \in InGame : Received(p) = 0
  BY <1>1 DEF Completed, Received, Larger, InGame
<1>3. Settled = << >>
  <2>1. Settled = [k \in 1 .. 0 |-> [q \in InGame |-> Decided(q, StartingTick + k - 1)]]
    BY <1>2 DEF Settled, Completed
  <2> QED BY <2>1
<1>4. Played = [p \in InGame |-> << >>]
  <2>1. ASSUME NEW p \in InGame PROVE Played[p] = << >>
    <3>1. Played[p] = [k \in 1 .. 0 |-> [q \in InGame |-> gameFlags[p][q][k]]]
      BY <1>2 DEF Played, Received
    <3> QED BY <3>1
  <2> QED BY <2>1 DEF Played
<1> QED BY <1>3, <1>4 DEF Game!LockstepInit

\* A game in lockstep is the lockstep game, with or without bandwidth reduction: what the hub
\* completes is settled, in the order of ticks, and every step of a machine that receives ticks
\* plays what has been settled of them.
THEOREM LockstepIsTheLockstepGame ==
  ASSUME ~Standalone PROVE GameSpec /\ []Lockstep => PlaysTheLockstepGame
<1>1. GameInit => Game!LockstepInit
  BY LockstepGameBegins
<1>2. /\ SpokesInvariant /\ SpokesInvariant' /\ Lockstep /\ Lockstep' /\ [GameNext]_gameVars
      => [Game!LockstepNext]_<<Settled, Played>>
  BY GamePlaysLockstep
<1> QED BY <1>1, <1>2, SpokesSafe, PTL DEF GameSpec, PlaysTheLockstepGame, Game!LockstepSpec

\* The star protocol implements the lockstep game as long as the games of the machines keep up.
THEOREM GameThatKeepsUpIsTheLockstepGame ==
  ASSUME ~Standalone, ~BandwidthReduction PROVE GameSpec /\ []GamesKeepUp => PlaysTheLockstepGame
BY GameThatKeepsUpIsInLockstep, LockstepIsTheLockstepGame, PTL

\* A game no longer than an action queue implements the lockstep game whatever its machines do.
THEOREM ShortGameIsTheLockstepGame ==
  ASSUME ~Standalone, ~BandwidthReduction, Horizon - FirstTick <= ActionQueueSize
  PROVE  GameSpec => PlaysTheLockstepGame
BY ShortGameIsInLockstep, LockstepIsTheLockstepGame, PTL

-----------------------------------------------------------------------------
(* With the adjustments the hub's windows ask for, the game is one of those  *)
(* StarGame allows, so what is proved of StarGame holds of it.               *)

\* Each step of the timed game is a step of the game.
LEMMA TimedStep == ASSUME TimedNext PROVE GameNext
<1>1. ASSUME NEW p \in Remote, TimedReceivesRemote(p) PROVE GameNext
  <2>1. HubReceivesRemote(p)
    BY <1>1, Zenon DEF TimedReceivesRemote, HubReceivesRemote
  <2> QED BY <2>1, Zenon DEF GameNext
<1>2. ASSUME NEW p \in Local, TimedReceivesLocal(p) PROVE GameNext
  <2>1. HubReceivesLocal(p)
    BY <1>2, Zenon DEF TimedReceivesLocal
  <2> QED BY <2>1, Zenon DEF GameNext
<1>3. ASSUME TimedTicks PROVE GameNext
  BY <1>3, Zenon DEF TimedTicks, GameNext
<1>4. ASSUME TimedElsewhere PROVE GameNext
  BY <1>4, Zenon DEF TimedElsewhere, GameNext
<1> QED BY TimedNext, <1>1, <1>2, <1>3, <1>4, Zenon DEF TimedNext

\* The hub asks for nothing that StarGame does not let it ask for, and asking changes nothing
\* else: the windows and the outstanding adjustments only watch the game.
THEOREM TimedGameIsGame == TimedSpec => GameSpec
<1>1. TimedInit => GameInit
  BY DEF TimedInit
<1>2. [TimedNext]_timedVars => [GameNext]_gameVars
  BY TimedStep, Zenon DEF timedVars
<1> QED BY <1>1, <1>2, PTL DEF TimedSpec, GameSpec

\* Machines that know of each other play the same flags while the hub moves their clocks to
\* and fro, whatever its windows make it ask for and whenever the spokes come to hear of it.
THEOREM TimedGameIsInLockstep == ASSUME ~Standalone PROVE TimedSpec => []LockstepInCompany
BY TimedGameIsGame, GameIsInLockstep, PTL

\* Adjusted spokes still send what the hub's own specification expects of spokes.
THEOREM TimedGameIsAmongSpokes == ASSUME ~Standalone PROVE TimedSpec => HubIsAmongSpokes
BY TimedGameIsGame, GameIsAmongSpokes, PTL

\* Adjusted spokes and their hub agree on what has arrived, and all have received the game to its
\* end before a graceful hub is gone.
THEOREM TimedGameKeepsPromises ==
  ASSUME ~Standalone PROVE TimedSpec => [](LinksKeepTheirPromises /\ EverybodyFinishes)
BY TimedGameIsGame, LinksKeepPromises, EverybodyHasFinished, PTL

\* A short game, like the one the configuration runs, is the lockstep game however the clocks of
\* its machines are adjusted.
THEOREM TimedShortGameIsTheLockstepGame ==
  ASSUME ~Standalone, ~BandwidthReduction, Horizon - FirstTick <= ActionQueueSize
  PROVE  TimedSpec => []Lockstep /\ PlaysTheLockstepGame
BY TimedGameIsGame, ShortGameIsInLockstep, ShortGameIsTheLockstepGame, PTL

-----------------------------------------------------------------------------
(* What the hub asks for is seen before it stops asking.                     *)

\* p, reading frame f, finds nobody else in the game.
ReadsAlone(p, f) == \A q \in Players \ {p} : q \notin StillConnected(p, f)

\* With frame f, sent before p was asked, p does not get past the tick open at that time.
FallsShort(p, f) ==
  /\ \A t \in DOMAIN f.flags : t < timingAdjustmentTick[p]
  /\ ReadsAlone(p, f) => f.ack <= timingAdjustmentTick[p] /\ outgoingReadTick[p] <= timingAdjustmentTick[p]

\* p has seen what he is asked for, and nothing on its way to him says otherwise.
Informed(p) ==
  /\ requestedAdjustment[p] = outstandingTimingAdjustment[p]
  /\ \A k \in DOMAIN toSpoke[p] : toSpoke[p][k].adjustment = outstandingTimingAdjustment[p]

\* p has not received the tick open when he was asked, nor will he from a frame that does not ask.
Behind(p) ==
  /\ smallestUnreceivedTick[p] <= timingAdjustmentTick[p]
  /\ \A k \in DOMAIN toSpoke[p] :
       toSpoke[p][k].adjustment = outstandingTimingAdjustment[p] \/ FallsShort(p, toSpoke[p][k])

AskKnown(p) == outstandingTimingAdjustment[p] # 0 => Informed(p) \/ Behind(p)

AsksTyped ==
  /\ outstandingTimingAdjustment = [p \in Players |-> outstandingTimingAdjustment[p]]
  /\ timingAdjustmentTick \in [Players -> Int]

\* Only the last frame for a spoke can still arrive.
OneOnItsWay == \A p \in Players : DOMAIN toSpoke[p] \subseteq {1}

AsksInvariant == AsksTyped /\ OneOnItsWay /\ \A p \in connected : AskKnown(p)

\* Nothing else is on a wire after a frame is sent.
LEMMA SentAlone ==
  ASSUME InFlight = 1, NEW wire, NEW frame, IsSequence(wire), DOMAIN wire \subseteq {1}
  PROVE  Len(Sent(wire, frame)) = 1 /\ DOMAIN Sent(wire, frame) = {1}
<1>1. PICK S : wire \in Seq(S)
  BY DEF IsSequence
<1>2. wire \in Seq(S \cup {frame}) /\ frame \in S \cup {frame} /\ Len(wire) \in Nat /\ DOMAIN wire = 1 .. Len(wire)
  BY <1>1
<1>3. Len(wire) <= 1
  <2>1. CASE Len(wire) > 1
    <3>1. 2 \in 1 .. Len(wire)
      BY <1>2, <2>1
    <3> QED BY <1>2, <3>1
  <2> QED BY <1>2, <2>1
<1>4. Sent(wire, frame) \in Seq(S \cup {frame}) /\ Len(Sent(wire, frame)) = 1
  <2>1. CASE Len(wire) < InFlight
    BY <1>2, <1>3, <2>1 DEF Sent
  <2>2. CASE ~(Len(wire) < InFlight)
    <3>1. Len(wire) = 1 /\ wire # << >>
      BY <1>2, <1>3, <2>2
    <3>2. Tail(wire) \in Seq(S \cup {frame}) /\ Len(Tail(wire)) = 0
      BY <1>2, <3>1
    <3>3. Append(Tail(wire), frame) \in Seq(S \cup {frame}) /\ Len(Append(Tail(wire), frame)) = 1
      BY <1>2, <3>2
    <3> QED BY <2>2, <3>3 DEF Sent
  <2> QED BY <2>1, <2>2
<1> QED BY <1>4

\* The hub learns addresses, and forgets none.
LEMMA AddressesStay ==
  ASSUME NEW p \in Players, NEW f, HubHandles(p, f) \/ HubTick
  PROVE  addressKnown \subseteq addressKnown'
<1>1. CASE ReceiveIdentification(p)
  BY <1>1 DEF ReceiveIdentification
<1>2. CASE ReceiveGameData(p, f.ack, f.start, f.end)
  <2>1. PICK a, end2, b : BookGameData(p, f.ack, a, end2, b)
    BY <1>2, Zenon DEF ReceiveGameData
  <2>2. UNCHANGED playerVars
    BY <2>1, Zenon DEF BookGameData, Abort
  <2> QED BY <2>2 DEF playerVars
<1>3. CASE HubTick
  <2>1. HubTickBegin \/ ScanSurvivors \/ HubTickEnd => UNCHANGED playerVars
    BY Zenon DEF HubTickBegin, ScanSurvivors, HubTickEnd, Abort
  <2>2. BookNetDeath => UNCHANGED playerVars
    BY Zenon DEF BookNetDeath, Abort
  <2>3. ScanNetDead => UNCHANGED addressKnown
    BY Zenon DEF ScanNetDead
  <2>4. UNCHANGED playerVars => UNCHANGED addressKnown
    BY DEF playerVars
  <2> QED BY <1>3, <2>1, <2>2, <2>3, <2>4, Zenon DEF HubTick
<1> QED BY <1>1, <1>2, <1>3 DEF HubHandles

\* What the hub puts on a wire asks for what is outstanding by then, and is alone there.
LEMMA SendsWhatItAsks ==
  ASSUME InFlight = 1, GameInvariant, OneOnItsWay, AsksAreSent, HubAdvances, addressKnown \subseteq addressKnown',
         NEW ACTION Step, HubStep(Step), NEW p \in Players
  PROVE  \/ toSpoke'[p] = toSpoke[p]
         \/ /\ DOMAIN toSpoke'[p] = {1}
            /\ toSpoke'[p][1].adjustment = outstandingTimingAdjustment'[p]
<1>1. PICK large : \E asks : HubWires(large, asks)
  BY Zenon DEF HubStep
<1>2. PICK asks : HubWires(large, asks)
  BY <1>1
<1>3. CASE HubSends /\ p \in connected /\ p \in addressKnown
  <2>1. PICK f : toSpoke'[p] = Sent(toSpoke[p], f)
    BY <1>2, <1>3, Zenon DEF HubWires
  <2>2. IsSequence(toSpoke[p]) /\ DOMAIN toSpoke[p] \subseteq {1}
    BY DEF GameInvariant, WiresSound, OneOnItsWay
  <2>3. Len(toSpoke'[p]) = 1 /\ DOMAIN toSpoke'[p] = {1}
    BY <2>1, <2>2, SentAlone
  <2>4. p \in connected' \cap addressKnown'
    BY <1>3 DEF HubAdvances
  <2> QED BY <1>3, <2>3, <2>4 DEF AsksAreSent
<1>4. CASE ~(HubSends /\ p \in connected /\ p \in addressKnown)
  BY <1>2, <1>4 DEF HubWires
<1> QED BY <1>3, <1>4

\* The hub asks p what it asked him before, of the same tick; or it asks him for nothing, or for
\* something new and of the tick that is open by then.
KeepsAsking(p) ==
  /\ outstandingTimingAdjustment'[p] = outstandingTimingAdjustment[p]
  /\ timingAdjustmentTick'[p] = timingAdjustmentTick[p]
AsksAnew(p) == outstandingTimingAdjustment'[p] = 0 \/ timingAdjustmentTick'[p] = smallestIncompleteTick

\* Hearing from p, it stops or asks anew only if it asked for nothing or has seen p answer.
LEMMA HearsKinds ==
  ASSUME AsksTyped, smallestIncompleteTick \in Int, NEW p \in Players,
         NEW ack, NEW start, NEW end, Hears(p, ack, start, end)
  PROVE  /\ AsksTyped'
         /\ \A q \in Players \ {p} : KeepsAsking(q)
         /\ \/ KeepsAsking(p)
            \/ AsksAnew(p) /\ (outstandingTimingAdjustment[p] = 0 \/ Seen(p, ack))
<1> DEFINE seen    == ack >= smallestUnacknowledgedTick[p] /\ Seen(p, ack)
           asked   == IF seen THEN 0 ELSE outstandingTimingAdjustment[p]
           window  == IF seen THEN << >> ELSE arrivalOffsets[p]
           unheard == smallestUnheardTick[p]
           next    == Larger(unheard, end)
           behind(k) == IF p = referencePlayer THEN 0
                        ELSE unheard + k - 1 - smallestUnheardTick[referencePlayer]
           heard   == Latest(window \o [k \in 1 .. next - unheard |-> behind(k)], windowSize[p])
           starts  == next >= StartingTick /\ windowSize[p] # InGameWindowSize
           size    == IF starts THEN InGameWindowSize ELSE windowSize[p]
           offsets == IF starts THEN << >> ELSE heard
           asks    == asked = 0 /\ Len(offsets) = size
           nth     == IF next >= StartingTick THEN InGameNthElement ELSE PregameNthElement
           ask     == IF asks THEN NthSmallest(offsets, nth) ELSE asked
<1>1. \/ /\ outstandingTimingAdjustment' = [outstandingTimingAdjustment EXCEPT ![p] = asked]
         /\ UNCHANGED timingAdjustmentTick
      \/ /\ outstandingTimingAdjustment' = [outstandingTimingAdjustment EXCEPT ![p] = ask]
         /\ timingAdjustmentTick' = [timingAdjustmentTick EXCEPT ![p] =
                                       IF asks /\ ask # 0 THEN smallestIncompleteTick ELSE @]
  BY Zenon DEF Hears
<1>2. \/ asked = 0 /\ (outstandingTimingAdjustment[p] = 0 \/ Seen(p, ack))
      \/ asked = outstandingTimingAdjustment[p]
  OBVIOUS
<1>3. asks => asked = 0
  OBVIOUS
<1>4. ~asks => ask = asked
  OBVIOUS
<1> HIDE DEF asked, asks, ask
<1>5. AsksTyped'
  BY <1>1 DEF AsksTyped
<1>6. \A q \in Players \ {p} : KeepsAsking(q)
  BY <1>1 DEF AsksTyped, KeepsAsking
<1>7. CASE ~asks \/ UNCHANGED timingAdjustmentTick
  BY <1>1, <1>2, <1>3, <1>4, <1>7 DEF AsksTyped, KeepsAsking, AsksAnew
<1>8. CASE asks
  BY <1>1, <1>2, <1>3, <1>8 DEF AsksTyped, KeepsAsking, AsksAnew
<1> QED BY <1>5, <1>6, <1>7, <1>8

\* What a step of the hub leaves on p's wire.
AsksWith(p) ==
  \/ toSpoke'[p] = toSpoke[p]
  \/ DOMAIN toSpoke'[p] = {1} /\ toSpoke'[p][1].adjustment = outstandingTimingAdjustment'[p]

LEMMA HubGoesOnAsking ==
  ASSUME UNCHANGED spokeVars, NEW p \in Players, KeepsAsking(p), AsksWith(p), AskKnown(p)
  PROVE  AskKnown(p)'
<1>1. UNCHANGED <<requestedAdjustment, smallestUnreceivedTick, outgoingReadTick, stillConnected>>
  BY DEF spokeVars, spokeQueueVars, viewVars, receivedVars, timingVars
<1>2. CASE toSpoke'[p] = toSpoke[p]
  BY <1>1, <1>2 DEF AskKnown, Informed, Behind, FallsShort, ReadsAlone, StillConnected, KeepsAsking
<1>3. CASE DOMAIN toSpoke'[p] = {1} /\ toSpoke'[p][1].adjustment = outstandingTimingAdjustment'[p]
  BY <1>1, <1>3 DEF AskKnown, Informed, Behind, KeepsAsking
<1> QED BY <1>2, <1>3 DEF AsksWith

\* Whoever is asked anew has received no tick that is still open, and, as far as he finds himself
\* alone, what is acknowledged to him has been sent.
LEMMA HubAsksAnew ==
  ASSUME GameInvariant, UNCHANGED spokeVars, NEW p \in Players, AsksAnew(p), AsksWith(p)
  PROVE  AskKnown(p)'
<1>1. UNCHANGED <<requestedAdjustment, smallestUnreceivedTick, outgoingReadTick, stillConnected>>
  BY DEF spokeVars, spokeQueueVars, viewVars, receivedVars, timingVars
<1>2. SUFFICES ASSUME timingAdjustmentTick'[p] = smallestIncompleteTick PROVE Behind(p)'
  BY DEF AsksAnew, AskKnown
<1>3. /\ smallestUnsentTick \in Int /\ smallestIncompleteTick \in Int
      /\ smallestUnsentTick <= smallestIncompleteTick
      /\ smallestUnreceivedTick[p] \in Int /\ smallestUnreceivedTick[p] <= smallestUnsentTick
      /\ outgoingReadTick[p] \in Int /\ FirstTick \in Int /\ flagsWriteTick[p] \in Int
  BY Constants DEF GameInvariant, HubInvariant, TypeOK, QueuesLineUp, SpokesSound
<1>4. smallestUnreceivedTick'[p] <= timingAdjustmentTick'[p]
  BY <1>1, <1>2, <1>3
<1>5. ASSUME NEW k \in DOMAIN toSpoke[p], toSpoke'[p] = toSpoke[p]
      PROVE  FallsShort(p, toSpoke[p][k])'
  <2> DEFINE f == toSpoke[p][k]
  <2>1. FrameToSpokeSound(p, f)
    BY DEF GameInvariant, WiresSound
  <2>2. \A t \in DOMAIN f.flags : t < smallestIncompleteTick
    <3> HIDE DEF f
    <3>1. \A t \in DOMAIN f.flags : t \in FirstTick .. smallestUnsentTick - 1
      BY <2>1 DEF FrameToSpokeSound
    <3> QED BY <1>3, <3>1
  <2>3. ReadsAlone(p, f) => f.ack <= smallestUnsentTick /\ outgoingReadTick[p] <= smallestUnsentTick
    <3>1. ReadsAlone(p, f) => ToldAlone(p)
      BY DEF ReadsAlone, ToldAlone, StillConnected
    <3> QED BY <3>1 DEF GameInvariant, AloneIsSent
  <2>4. f.ack \in Int
    <3> HIDE DEF f
    <3> QED BY <1>3, <2>1 DEF FrameToSpokeSound
  <2>5. ReadsAlone(p, f) => f.ack <= smallestIncompleteTick /\ outgoingReadTick[p] <= smallestIncompleteTick
    <3> HIDE DEF f
    <3> QED BY <1>3, <2>3, <2>4
  <2>6. ReadsAlone(p, toSpoke[p][k])' => ReadsAlone(p, f)
    BY <1>1, <1>5 DEF ReadsAlone, StillConnected
  <2> QED BY <1>1, <1>2, <1>5, <2>2, <2>5, <2>6 DEF FallsShort
<1>6. CASE toSpoke'[p] = toSpoke[p]
  BY <1>4, <1>5, <1>6 DEF Behind
<1>7. CASE DOMAIN toSpoke'[p] = {1} /\ toSpoke'[p][1].adjustment = outstandingTimingAdjustment'[p]
  BY <1>4, <1>7 DEF Behind
<1> QED BY <1>6, <1>7 DEF AsksWith

\* What p acknowledges it has received, so it is not behind what it answers.
LEMMA SeenIsInformed ==
  ASSUME GameInvariant, LinksInvariant, AsksTyped, NEW p \in Players, AskKnown(p),
         NEW f \in GameDataOf(p), Seen(p, f.ack)
  PROVE  Informed(p)
<1>1. FrameToHubSound(p, f) /\ FramePromises(p, f)
  BY Zenon DEF GameDataOf, GameInvariant, WiresSound, LinksInvariant, AcksAreTrue
<1>2. f.ack \in FirstTick .. smallestUnsentTick /\ f.ack <= smallestUnreceivedTick[p]
  BY <1>1, Zenon DEF GameDataOf, FrameToHubSound, FramePromises
<1>3. smallestUnreceivedTick[p] \in Int /\ timingAdjustmentTick[p] \in Int
  BY Constants DEF GameInvariant, SpokesSound, AsksTyped
<1>4. f.ack \in Int
  <2>1. smallestUnsentTick \in Int /\ FirstTick \in Int
    BY Constants DEF GameInvariant, HubInvariant, TypeOK
  <2> QED BY <1>2, <2>1
<1>5. ~Behind(p)
  BY <1>2, <1>3, <1>4 DEF Seen, Behind
<1> QED BY <1>5 DEF AskKnown, Seen

\* What the machine of p makes of its frames, as far as p's answers depend on it, stays as it is;
\* a frame may be gone.
Listens(p) ==
  /\ requestedAdjustment'[p] = requestedAdjustment[p] /\ outgoingReadTick'[p] = outgoingReadTick[p]
  /\ smallestUnreceivedTick'[p] = smallestUnreceivedTick[p] /\ stillConnected'[p] = stillConnected[p]

LEMMA ListeningChangesNothing ==
  ASSUME NEW p \in Players, Listens(p), KeepsAsking(p), toSpoke'[p] = toSpoke[p] \/ toSpoke'[p] = << >>, AskKnown(p)
  PROVE  AskKnown(p)'
<1>1. \A k \in DOMAIN toSpoke'[p] : k \in DOMAIN toSpoke[p] /\ toSpoke'[p][k] = toSpoke[p][k]
  BY EmptySequence
<1>2. CASE Informed(p)
  BY <1>1, <1>2 DEF AskKnown, Informed, Listens, KeepsAsking
<1>3. CASE Behind(p)
  <2>1. ASSUME NEW k \in DOMAIN toSpoke'[p], FallsShort(p, toSpoke[p][k]) PROVE FallsShort(p, toSpoke[p][k])'
    BY <1>1, <2>1 DEF FallsShort, ReadsAlone, StillConnected, Listens, KeepsAsking
  <2> QED BY <1>1, <1>3, <2>1 DEF AskKnown, Behind, Listens, KeepsAsking
<1> QED BY <1>2, <1>3 DEF AskKnown, KeepsAsking

\* How far p gets with a frame.
LEMMA ReceiptReaches ==
  ASSUME GameInvariant, NEW p \in Players, NEW f, FrameToSpokeSound(p, f), FrameDecided(p, f),
         SpokeReceives(p, f), NEW tick \in Int, smallestUnreceivedTick[p] <= tick,
         \A t \in DOMAIN f.flags : t < tick, ReadsAlone(p, f) => Acked(p, f) <= tick
  PROVE  smallestUnreceivedTick'[p] <= tick
<1>1. smallestUnreceivedTick \in [Players -> FirstTick .. Horizon] /\ smallestUnreceivedTick[p] \in Int
  BY Constants DEF GameInvariant, SpokesSound
<1>2. CASE TakesNothing(p)
  BY <1>2 DEF TakesNothing
<1>3. CASE TakesItsOwn(p, f)
  <2>1. WeAreAlone(p, f, Acked(p, f)) /\ ReceiveNoFlags(p, f, Acked(p, f))
    BY <1>3 DEF TakesItsOwn
  <2>2. ReadsAlone(p, f)
    BY <2>1 DEF WeAreAlone, ReadsAlone
  <2>3. smallestUnreceivedTick'[p] = Acked(p, f)
    BY <1>1, <2>1 DEF ReceiveNoFlags
  <2> QED BY <2>2, <2>3
<1>4. ASSUME NEW start \in Int, NEW stop \in Int, TakesFlags(p, f, start, stop)
      PROVE  smallestUnreceivedTick'[p] <= tick
  <2>1. smallestUnreceivedTick'[p] \in {smallestUnreceivedTick[p], Larger(smallestUnreceivedTick[p], stop)}
    BY <1>1, <1>4 DEF TakesFlags, ReceiveFlags, receivedVars
  <2>2. stop <= smallestUnreceivedTick[p] \/ stop - 1 \in DOMAIN f.flags
    <3>1. start <= smallestUnreceivedTick[p] /\ start .. stop - 1 \subseteq DOMAIN f.flags
      BY <1>4 DEF TakesFlags
    <3>2. start <= stop - 1 => stop - 1 \in start .. stop - 1
      OBVIOUS
    <3> QED BY <1>1, <3>1, <3>2
  <2>3. stop <= tick
    <3>1. stop - 1 \in DOMAIN f.flags => stop - 1 < tick
      OBVIOUS
    <3> QED BY <1>1, <2>2, <3>1
  <2> QED BY <1>1, <2>1, <2>3 DEF Larger
<1> QED BY <1>2, <1>3, <1>4, ReceiptKinds

\* What p learns from the frame it takes: it is informed, or falls short.
LEMMA ReceiptInforms ==
  ASSUME GameInvariant, LockstepInvariant, AsksTyped, OneOnItsWay, NEW p \in Players, KeepsAsking(p),
         ReceiptAction(p), AskKnown(p)
  PROVE  AskKnown(p)'
<1>1. PICK k \in DOMAIN toSpoke[p] : SpokeReceives(p, toSpoke[p][k])
  BY DEF ReceiptAction
<1>2. PICK f : f = toSpoke[p][k]
  OBVIOUS
<1>3. FrameToSpokeSound(p, f) /\ FrameDecided(p, f)
  BY <1>2 DEF GameInvariant, WiresSound, LockstepInvariant, WiresDecided
<1>4. toSpoke'[p] = toSpoke[p] \/ toSpoke'[p] = << >>
  BY DEF ReceiptAction, OnlyTakenFromSpokes
<1>5. \A j \in DOMAIN toSpoke[p] : toSpoke[p][j] = f
  BY <1>2 DEF OneOnItsWay
<1>6. \A j \in DOMAIN toSpoke'[p] : toSpoke'[p][j] = f
  BY <1>4, <1>5, EmptySequence
<1>7. SpokeReceives(p, f)
  BY <1>1, <1>2
<1>8. timingAdjustmentTick[p] \in Int
  BY DEF AsksTyped
<1>9. \/ UNCHANGED <<outgoingReadTick, stillConnected, requestedAdjustment, smallestUnreceivedTick>>
      \/ /\ outgoingReadTick' = [outgoingReadTick EXCEPT ![p] = Acked(p, f)]
         /\ stillConnected' = [stillConnected EXCEPT ![p] = StillConnected(p, f)]
         /\ requestedAdjustment' = [requestedAdjustment EXCEPT ![p] = f.adjustment]
  BY <1>7 DEF SpokeReceives, Acked, viewVars, timingVars, receivedVars
<1>10. CASE UNCHANGED <<outgoingReadTick, stillConnected, requestedAdjustment, smallestUnreceivedTick>>
  BY <1>4, <1>10, ListeningChangesNothing DEF Listens
<1>11. CASE ~ UNCHANGED <<outgoingReadTick, stillConnected, requestedAdjustment, smallestUnreceivedTick>>
  <2>1. /\ outgoingReadTick'[p] = Acked(p, f) /\ stillConnected'[p] = StillConnected(p, f)
        /\ requestedAdjustment'[p] = f.adjustment
    BY <1>9, <1>11 DEF GameInvariant, SpokesSound
  <2>2. CASE f.adjustment = outstandingTimingAdjustment[p]
    BY <1>6, <2>1, <2>2 DEF AskKnown, Informed, KeepsAsking
  <2>3. CASE f.adjustment # outstandingTimingAdjustment[p]
    <3>1. SUFFICES ASSUME outstandingTimingAdjustment[p] # 0 PROVE Behind(p)'
      BY DEF AskKnown, KeepsAsking
    <3>2. Behind(p) /\ FallsShort(p, f)
      BY <1>2, <2>3, <3>1 DEF AskKnown, Informed, Behind
    <3>3. ReadsAlone(p, f) => f.ack <= timingAdjustmentTick[p] /\ Acked(p, f) <= timingAdjustmentTick[p]
      BY <1>3, <1>8, <3>2, AckedBounds DEF FallsShort, Acked, Larger, Smaller
    <3>4. smallestUnreceivedTick'[p] <= timingAdjustmentTick[p]
      BY <1>3, <1>7, <1>8, <3>2, <3>3, ReceiptReaches DEF FallsShort, Behind
    <3>5. ReadsAlone(p, f)' => ReadsAlone(p, f)
      BY <2>1 DEF ReadsAlone, StillConnected
    <3>6. FallsShort(p, f)'
      BY <2>1, <3>2, <3>3, <3>5 DEF FallsShort, KeepsAsking
    <3> QED BY <1>6, <3>4, <3>6 DEF Behind, FallsShort, ReadsAlone, StillConnected, KeepsAsking
  <2> QED BY <2>2, <2>3
<1> QED BY <1>10, <1>11

\* When the hub stops asking a player for an adjustment, the player has heard of it.
AsksAnswered ==
  \A p \in connected' :
    outstandingTimingAdjustment[p] # 0 /\ outstandingTimingAdjustment'[p] # outstandingTimingAdjustment[p]
      => Informed(p)

\* A step of the machines: the hub goes on asking what it asks.
LEMMA MachinesKeepAsks ==
  ASSUME SpokesInvariant, AsksInvariant, UNCHANGED askVars, connected' \subseteq connected,
         \A p \in Players : toSpoke'[p] = toSpoke[p] \/ toSpoke'[p] = << >>,
         \A p \in connected : Listens(p) \/ AskKnown(p)'
  PROVE  AsksInvariant' /\ AsksAnswered
<1>1. \A p \in Players : KeepsAsking(p)
  BY DEF askVars, KeepsAsking
<1>2. AsksTyped' /\ AsksAnswered
  BY DEF AsksInvariant, AsksTyped, askVars, AsksAnswered
<1>3. OneOnItsWay'
  BY EmptySequence DEF AsksInvariant, OneOnItsWay
<1>4. connected \subseteq Players
  BY DEF SpokesInvariant, GameInvariant, HubInvariant, TypeOK
<1>5. \A p \in connected' : AskKnown(p)'
  BY <1>1, <1>4, ListeningChangesNothing DEF AsksInvariant
<1> QED BY <1>2, <1>3, <1>5 DEF AsksInvariant

\* A step of the hub that goes on asking, or asks anew, whom it has sent what it asks.
LEMMA HubKeepsAsks ==
  ASSUME SpokesInvariant, AsksInvariant, AsksTyped', UNCHANGED spokeVars, connected' \subseteq connected,
         \A p \in Players : AsksWith(p),
         \A p \in connected' : KeepsAsking(p) \/ (AsksAnew(p) /\ (outstandingTimingAdjustment[p] # 0 => Informed(p)))
  PROVE  AsksInvariant' /\ AsksAnswered
<1>1. OneOnItsWay'
  BY DEF AsksWith, AsksInvariant, OneOnItsWay
<1>2. connected \subseteq Players
  BY DEF SpokesInvariant, GameInvariant, HubInvariant, TypeOK
<1>3. GameInvariant
  BY DEF SpokesInvariant
<1>4. \A p \in connected' : AskKnown(p)'
  BY <1>2, <1>3, HubGoesOnAsking, HubAsksAnew DEF AsksInvariant
<1>5. AsksAnswered
  BY DEF AsksAnswered, KeepsAsking
<1> QED BY <1>1, <1>4, <1>5 DEF AsksInvariant

\* The hub hears a frame of p.
LEMMA HearingKeepsAsks ==
  ASSUME ~Standalone, InFlight = 1, SpokesInvariant, AsksInvariant, NEW p \in Players,
         NEW k \in 1 .. Len(toHub[p]), HubStep(HubHandles(p, toHub[p][k])), HearsFrame(p, toHub[p][k])
  PROVE  AsksInvariant' /\ AsksAnswered
<1>1. PICK f : f = toHub[p][k]
  OBVIOUS
<1>2. GameInvariant /\ LinksInvariant /\ AsksTyped
  BY DEF SpokesInvariant, AsksInvariant
<1>3. HubStep(HubHandles(p, f)) /\ HubHandles(p, f)
  BY <1>1 DEF HubStep
<1>4. HubAdvances
  BY <1>1, <1>2, <1>3, FrameOnTheWire, HubHandlesSoundFrames
<1>5. addressKnown \subseteq addressKnown'
  BY <1>3, AddressesStay
<1>6. UNCHANGED spokeVars
  BY DEF HubStep
<1>7. AsksAreSent /\ \/ f \in GameDataOf(p) /\ Hears(p, f.ack, f.start, f.end)
                     \/ UNCHANGED askVars
  <2>1. IsSequence(toHub[p])
    BY <1>2 DEF GameInvariant, WiresSound
  <2>2. k \in DOMAIN toHub[p]
    BY <2>1, SequenceLength
  <2> QED BY <1>1, <2>2, Zenon DEF HearsFrame, GameDataOf
<1>8. \A q \in Players : AsksWith(q)
  <2>1. OneOnItsWay
    BY DEF AsksInvariant
  <2>2. ASSUME NEW q \in Players PROVE AsksWith(q)
    BY <1>2, <1>3, <1>4, <1>5, <1>7, <2>1, SendsWhatItAsks DEF AsksWith
  <2> QED BY <2>2
<1>9. connected' \subseteq connected /\ connected \subseteq Players
  <2>1. connected \subseteq Players
    BY <1>2 DEF GameInvariant, HubInvariant, TypeOK
  <2>2. connected' \subseteq connected
    BY <1>4 DEF HubAdvances
  <2> QED BY <2>1, <2>2
<1>10. CASE UNCHANGED askVars
  <2>1. AsksTyped' /\ \A q \in connected' : KeepsAsking(q)
    BY <1>2, <1>10 DEF AsksTyped, askVars, KeepsAsking
  <2> QED BY <1>6, <1>8, <1>9, <2>1, HubKeepsAsks
<1>11. CASE f \in GameDataOf(p) /\ Hears(p, f.ack, f.start, f.end)
  <2>1. smallestIncompleteTick \in Int
    BY <1>2, Constants DEF GameInvariant, HubInvariant, TypeOK
  <2>2. /\ AsksTyped' /\ \A q \in Players \ {p} : KeepsAsking(q)
        /\ KeepsAsking(p) \/ (AsksAnew(p) /\ (outstandingTimingAdjustment[p] = 0 \/ Seen(p, f.ack)))
    BY <1>2, <1>11, <2>1, HearsKinds
  <2>3. p \in connected /\ Seen(p, f.ack) => Informed(p)
    BY <1>2, <1>11, SeenIsInformed DEF AsksInvariant
  <2>4. \A q \in connected' : KeepsAsking(q) \/ (AsksAnew(q) /\ (outstandingTimingAdjustment[q] # 0 => Informed(q)))
    BY <1>9, <2>2, <2>3
  <2> QED BY <1>6, <1>8, <1>9, <2>2, <2>4, HubKeepsAsks
<1> QED BY <1>7, <1>10, <1>11

\* What is forgotten in hub_tick is what a dead player was asked for.
LEMMA TickKeepsAsks ==
  ASSUME ~Standalone, InFlight = 1, SpokesInvariant, AsksInvariant, TimedTicks
  PROVE  AsksInvariant' /\ AsksAnswered
<1>1. GameInvariant /\ AsksTyped /\ OneOnItsWay
  BY DEF SpokesInvariant, AsksInvariant
<1>2. HubStep(HubTick) /\ HubTick /\ UNCHANGED spokeVars /\ AsksAreSent
  BY DEF TimedTicks, HubTicks, HubStep
<1>3. HubAdvances
  BY <1>1, <1>2, TickAdvances DEF GameInvariant
<1>4. addressKnown \subseteq addressKnown'
  <2>1. \E p : p \in Players
    BY DEF SpokesInvariant, GameInvariant, SpokesSound
  <2> QED BY <1>2, <2>1, AddressesStay
<1>5. \A p \in Players : AsksWith(p)
  <2>1. ASSUME NEW p \in Players PROVE AsksWith(p)
    BY <1>1, <1>2, <1>3, <1>4, SendsWhatItAsks DEF AsksWith
  <2> QED BY <2>1
<1>6. \/ UNCHANGED <<outstandingTimingAdjustment, timingAdjustmentTick>>
      \/ /\ outstandingTimingAdjustment' = [outstandingTimingAdjustment EXCEPT ![dying] = 0]
         /\ UNCHANGED timingAdjustmentTick
  BY DEF TimedTicks, askVars
<1>7. dying \notin connected /\ connected \subseteq Players /\ connected' \subseteq connected
  <2>1. dying \notin connected /\ connected \subseteq Players
    BY <1>1 DEF GameInvariant, HubInvariant, LoopState, TypeOK
  <2>2. connected' \subseteq connected
    BY <1>3 DEF HubAdvances
  <2> QED BY <2>1, <2>2
<1>8. AsksTyped' /\ \A p \in connected' : KeepsAsking(p)
  BY <1>1, <1>6, <1>7 DEF AsksTyped, KeepsAsking
<1> QED BY <1>2, <1>5, <1>7, <1>8, HubKeepsAsks

\* Whatever a machine does by itself or with a frame of the hub, it listens, or is informed.
LEMMA ElsewhereKeepsAsks ==
  ASSUME SpokesInvariant, AsksInvariant, TimedElsewhere
  PROVE  AsksInvariant' /\ AsksAnswered
<1>1. GameInvariant /\ LockstepInvariant /\ AsksTyped /\ OneOnItsWay /\ UNCHANGED askVars
  BY DEF SpokesInvariant, AsksInvariant, TimedElsewhere
<1>2. connected \subseteq Players
  BY <1>1 DEF GameInvariant, HubInvariant, TypeOK
<1>3. CASE HubLeaves
  <2>1. UNCHANGED <<spokeVars, connected, toSpoke>>
    BY <1>3 DEF HubLeaves, HubCleanup, HubCleanupEnd, wires, playerVars
  <2>2. \A p \in connected : Listens(p)
    BY <2>1 DEF Listens, spokeVars, spokeQueueVars, viewVars, receivedVars, timingVars
  <2> QED BY <1>1, <2>1, <2>2, MachinesKeepAsks
<1>4. ASSUME NEW p \in Players, ReceiptAction(p)
      PROVE  AsksInvariant' /\ AsksAnswered
  <2>1. connected' = connected /\ \A q \in Players : toSpoke'[q] = toSpoke[q] \/ toSpoke'[q] = << >>
    BY <1>4 DEF ReceiptAction, hubVars, playerVars, OnlyTakenFromSpokes
  <2>2. ASSUME NEW q \in Players, q # p PROVE Listens(q)
    <3>1. PICK k \in DOMAIN toSpoke[p] : SpokeReceives(p, toSpoke[p][k])
      BY <1>4 DEF ReceiptAction
    <3>2. PICK f : f = toSpoke[p][k] /\ FrameToSpokeSound(p, f) /\ FrameDecided(p, f)
      BY <1>1 DEF GameInvariant, WiresSound, LockstepInvariant, WiresDecided
    <3>3. SpokeReceives(p, f)
      BY <3>1, <3>2
    <3>4. outgoingReadTick'[q] = outgoingReadTick[q] /\ stillConnected'[q] = stillConnected[q]
      BY <1>1, <1>4, <2>2, <3>1, ReceivesKeepsSound DEF ReceiptAction
    <3>5. requestedAdjustment'[q] = requestedAdjustment[q]
      BY <1>1, <2>2, <3>3 DEF SpokeReceives, timingVars, GameInvariant, SpokesSound
    <3>6. smallestUnreceivedTick'[q] = smallestUnreceivedTick[q]
      <4>1. \/ TakesNothing(p) \/ TakesItsOwn(p, f) \/ \E start, stop \in Int : TakesFlags(p, f, start, stop)
        BY <1>1, <3>2, <3>3, ReceiptKinds
      <4>2. smallestUnreceivedTick \in [Players -> FirstTick .. Horizon]
        BY <1>1 DEF GameInvariant, SpokesSound
      <4>3. TakesNothing(p) => UNCHANGED smallestUnreceivedTick
        BY DEF TakesNothing
      <4>4. TakesItsOwn(p, f) => smallestUnreceivedTick' = [smallestUnreceivedTick EXCEPT ![p] = Acked(p, f)]
        BY DEF TakesItsOwn, ReceiveNoFlags
      <4>5. ASSUME NEW start \in Int, NEW stop \in Int, TakesFlags(p, f, start, stop)
            PROVE  smallestUnreceivedTick'[q] = smallestUnreceivedTick[q]
        BY <2>2, <4>2, <4>5 DEF TakesFlags, ReceiveFlags, receivedVars
      <4> QED BY <2>2, <4>1, <4>2, <4>3, <4>4, <4>5
    <3> QED BY <3>4, <3>5, <3>6 DEF Listens
  <2>3. p \in connected => AskKnown(p)'
    <3>1. KeepsAsking(p)
      BY <1>1 DEF askVars, KeepsAsking
    <3> QED BY <1>1, <1>4, <3>1, ReceiptInforms DEF AsksInvariant
  <2>4. \A q \in connected : Listens(q) \/ AskKnown(q)'
    BY <1>2, <2>2, <2>3
  <2> QED BY <1>1, <2>1, <2>4, MachinesKeepAsks
<1>5. ASSUME NEW p \in Players, OwnAction(p)
      PROVE  AsksInvariant' /\ AsksAnswered
  <2>1. UNCHANGED <<connected, toSpoke>>
    BY <1>5 DEF OwnAction, hubVars, playerVars
  <2>2. UNCHANGED <<requestedAdjustment, outgoingReadTick, smallestUnreceivedTick, stillConnected>>
    <3>1. CASE SpokeTick(p)
      BY <3>1 DEF SpokeTick, viewVars
    <3>2. CASE SpokeGivesUp(p)
      BY <3>2 DEF SpokeGivesUp, spokeQueueVars, receivedVars, timingVars
    <3>3. CASE ForgetConfirmed(p) \/ GameAdvances(p) \/ SpokeCleanup(p)
      BY <3>3 DEF ForgetConfirmed, GameAdvances, SpokeCleanup, spokeQueueVars, receivedVars, timingVars, viewVars
    <3> QED BY <1>5, <3>1, <3>2, <3>3 DEF OwnAction, OwnStep
  <2>3. \A q \in connected : Listens(q)
    BY <2>2 DEF Listens
  <2> QED BY <1>1, <2>1, <2>3, MachinesKeepAsks
<1>6. CASE NoAction
  <2>1. /\ UNCHANGED <<connected, spokeVars>>
        /\ \A q \in Players : toSpoke'[q] = toSpoke[q] \/ toSpoke'[q] = << >>
    BY <1>6 DEF NoAction, hubVars, playerVars, OnlyTakenFromSpokes
  <2>2. \A q \in connected : Listens(q)
    BY <2>1 DEF Listens, spokeVars, spokeQueueVars, viewVars, receivedVars, timingVars
  <2> QED BY <1>1, <2>1, <2>2, MachinesKeepAsks
<1>7. Remote \subseteq Players /\ Local \subseteq Players
  BY DEF Remote, Local
<1> QED BY <1>1, <1>3, <1>4, <1>5, <1>6, <1>7, SpokeReceivesKind, SpokeActsKind DEF TimedElsewhere

LEMMA AsksStep ==
  ASSUME ~Standalone, InFlight = 1, SpokesInvariant, AsksInvariant, [TimedNext]_timedVars
  PROVE  AsksInvariant' /\ AsksAnswered
<1>1. ASSUME NEW p \in Remote, TimedReceivesRemote(p) PROVE AsksInvariant' /\ AsksAnswered
  <2>1. p \in Players
    BY DEF Remote
  <2> QED BY <1>1, <2>1, HearingKeepsAsks DEF TimedReceivesRemote
<1>2. ASSUME UNCHANGED <<connected, spokeVars, toSpoke, askVars>> PROVE AsksInvariant' /\ AsksAnswered
  <2>1. \A q \in connected : Listens(q)
    BY <1>2 DEF Listens, spokeVars, spokeQueueVars, viewVars, receivedVars, timingVars
  <2> QED BY <1>2, <2>1, MachinesKeepAsks
<1>3. ASSUME NEW p \in Local, TimedReceivesLocal(p) PROVE AsksInvariant' /\ AsksAnswered
  <2>1. p \in Players /\ IsSequence(toHub[p]) /\ toHub[p] # << >>
    BY <1>3 DEF Local, TimedReceivesLocal, HubReceivesLocal, SpokesInvariant, GameInvariant, WiresSound
  <2>2. 1 \in 1 .. Len(toHub[p]) /\ Head(toHub[p]) = toHub[p][1]
    BY <2>1, FirstIsHead
  <2>3. CASE HubIgnores(p, Head(toHub[p]))
    <3>1. UNCHANGED <<hubVars, spokeVars, toSpoke, askVars>>
      BY <1>3, <2>3 DEF TimedReceivesLocal, HubReceivesLocal
    <3>2. UNCHANGED connected
      BY <3>1 DEF hubVars, playerVars
    <3> QED BY <1>2, <3>1, <3>2
  <2>4. CASE ~HubIgnores(p, Head(toHub[p]))
    <3>1. HubStep(HubHandles(p, toHub[p][1])) /\ HearsFrame(p, toHub[p][1])
      BY <1>3, <2>2, <2>4 DEF TimedReceivesLocal, HubReceivesLocal
    <3> QED BY <2>1, <2>2, <3>1, HearingKeepsAsks
  <2> QED BY <2>3, <2>4
<1>4. CASE TimedTicks
  BY <1>4, TickKeepsAsks
<1>5. CASE TimedElsewhere
  BY <1>5, ElsewhereKeepsAsks
<1>6. CASE UNCHANGED timedVars
  <2>1. UNCHANGED <<connected, spokeVars, toSpoke, askVars>>
    BY <1>6 DEF timedVars, gameVars, hubVars, playerVars, wires
  <2> QED BY <1>2, <2>1
<1> QED BY <1>1, <1>3, <1>4, <1>5, <1>6, Zenon DEF TimedNext

LEMMA AsksBegin == TimedInit => AsksInvariant
<1> SUFFICES ASSUME TimedInit PROVE AsksInvariant
  OBVIOUS
<1>1. /\ outstandingTimingAdjustment = [p \in Players |-> 0]
      /\ timingAdjustmentTick = [p \in Players |-> 0]
      /\ toSpoke = [p \in Players |-> << >>]
      /\ connected \subseteq Players
  BY DEF TimedInit, GameInit
<1>2. AsksTyped
  BY <1>1 DEF AsksTyped
<1>3. OneOnItsWay
  BY <1>1, EmptySequence DEF OneOnItsWay
<1>4. \A p \in connected : AskKnown(p)
  BY <1>1 DEF AskKnown
<1> QED BY <1>2, <1>3, <1>4 DEF AsksInvariant

\* As long as no datagram overtakes another, the hub stops asking a player for an adjustment only
\* when his spoke has been asked for just that: for any number of players and any windows.
THEOREM AsksAreAlwaysSeen ==
  ASSUME ~Standalone, InFlight = 1 PROVE TimedSpec => []AsksInvariant /\ AsksAreSeen
<1>1. TimedInit => AsksInvariant
  BY AsksBegin
<1>2. SpokesInvariant /\ AsksInvariant /\ [TimedNext]_timedVars => AsksInvariant' /\ AsksAnswered
  BY AsksStep
<1>3. AsksAnswered => \A p \in connected' :
        outstandingTimingAdjustment[p] # 0
          /\ outstandingTimingAdjustment'[p] # outstandingTimingAdjustment[p]
        => requestedAdjustment[p] = outstandingTimingAdjustment[p]
  BY DEF AsksAnswered, Informed
<1>4. TimedSpec => []SpokesInvariant
  BY TimedGameIsGame, SpokesSafe, PTL
<1> QED BY <1>1, <1>2, <1>3, <1>4, PTL DEF TimedSpec, AsksAreSeen
=============================================================================
