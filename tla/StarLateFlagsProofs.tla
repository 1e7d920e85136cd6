------------------------ MODULE StarLateFlagsProofs ------------------------
(* The late flags of a hub, for any number of players and any sizes of queues:  *)
(* they never overtake the flags the hub works with, and whoever owes flags, or  *)
(* has some that came late, counts as lagging.                                   *)
EXTENDS StarLateFlags, StarHubProofs

-----------------------------------------------------------------------------
(* The invariant.                                                            *)

LateInvariant ==
  /\ HubOrNobody
  /\ lateReadTick \in [Players -> Int]
  /\ lateWriteTick \in [Players -> Int]
  /\ \A p \in Players : lateReadTick[p] <= lateWriteTick[p] /\ lateWriteTick[p] <= flagsWriteTick[p]
  /\ LateFlagsAreLaggards
  /\ LateFlagsFollow

\* What the queues of late flags are attached to.
LEMMA FlagsAreTicks ==
  ASSUME HubOrNobody
  PROVE  /\ connected \subseteq Players /\ dying \notin connected
         /\ dying # NONE => dying \in Players
         /\ \A p \in Players : flagsWriteTick[p] \in Int
BY Constants DEF HubOrNobody, HubInvariant, NobodyLeft, TypeOK, LoopState

\* At first all queues are empty and at the same tick.
LEMMA LateInitInvariant == ASSUME LateInit PROVE LateInvariant
<1>1. HubOrNobody
  BY InitInvariant DEF LateInit, HubOrNobody
<1>2. FirstTick \in Int /\ flagsWriteTick = [p \in Players |-> FirstTick]
  BY Constants DEF LateInit, Init
<1> QED BY <1>1, <1>2, FlagsAreTicks DEF LateInit, LateInvariant, LateFlagsAreLaggards, LateFlagsFollow

\* Half of a queue, rounded up to the flags at its midpoint, is no more than the queue.
LEMMA UsedIsThere == ASSUME NEW size \in Nat PROVE Used(size) \in 0 .. size
BY DEF Used

-----------------------------------------------------------------------------
(* The steps.                                                                *)

\* Steps that leave the queues of flags, and those of late flags, alone.
LEMMA UndisturbedLate ==
  ASSUME LateInvariant, HubOrNobody', connected' \subseteq connected,
         UNCHANGED <<flagsWriteTick, laggingPlayers, lateQueueVars, lateFailures>>
  PROVE  LateInvariant'
<1>1. UNCHANGED <<lateReadTick, lateWriteTick, lateFailures, flagsWriteTick, laggingPlayers>>
  BY DEF lateQueueVars
<1> QED BY <1>1 DEF LateInvariant, LateFlagsAreLaggards, LateFlagsFollow

\* A packet: what is late fills the queue up to the open ticks at most, and what is new ends
\* the lag.
LEMMA LatePacketInvariant ==
  ASSUME LateInvariant, NEW p \in Players, NEW ack \in FirstTick .. Horizon,
         NEW start \in FirstTick .. Horizon, NEW end \in FirstTick .. Horizon,
         LatePacket(p, ack, start, end)
  PROVE  LateInvariant'
<1> DEFINE skipped == Skipped(p, start)
           read    == lateReadTick[p] + skipped
           write   == lateWriteTick[p] + skipped
           late    == Late(p, write, end)
           new     == flagsWriteTick'[p] - flagsWriteTick[p]
<1>1. HubOrNobody' /\ connected' = connected /\ EnqueuesFlags(p, start, end)
  <2>1. ReceiveGameData(p, ack, start, end) /\ p \in connected
    BY DEF LatePacket, SpokeSends, ReceiveGameData
  <2>2. HubInvariant
    BY <2>1 DEF LateInvariant, HubOrNobody, NobodyLeft
  <2> QED BY <2>1, <2>2, GameDataInvariant DEF HubOrNobody
<1>2. /\ connected \subseteq Players
      /\ start \in Int /\ end \in Int
      /\ \A q \in Players : /\ flagsWriteTick[q] \in Int /\ flagsWriteTick'[q] \in Int
                            /\ lateReadTick[q] \in Int /\ lateWriteTick[q] \in Int
                            /\ lateReadTick[q] <= lateWriteTick[q]
                            /\ lateWriteTick[q] <= flagsWriteTick[q]
  <2>1. \A q \in Players : flagsWriteTick'[q] \in Int
    BY <1>1, Constants DEF HubOrNobody, HubInvariant, NobodyLeft, TypeOK
  <2> QED BY <2>1, FlagsAreTicks, Constants DEF LateInvariant
<1>3. LateReceived(p, start, end)
  BY DEF LatePacket
<1>4. CASE start = end \/ start > flagsWriteTick[p]
  <2>1. UNCHANGED <<lateQueueVars, lateFailures>>
    BY <1>3, <1>4 DEF LateReceived
  <2>2. UNCHANGED <<flagsWriteTick, laggingPlayers>>
    BY <1>1, <1>2, <1>4 DEF EnqueuesFlags
  <2> QED BY <1>1, <2>1, <2>2, UndisturbedLate
<1>5. CASE ~(start = end \/ start > flagsWriteTick[p])
  <2>1. /\ skipped \in Nat /\ read \in Int /\ write \in Int
        /\ lateReadTick[p] <= read /\ read <= write /\ write <= flagsWriteTick[p]
    BY <1>2 DEF Skipped
  <2>2. late \in Nat /\ write + late <= flagsWriteTick[p]
    BY <1>2, <2>1 DEF Late, Larger, Smaller
  <2>3. new > 0 => write + late = flagsWriteTick[p]
    <3>1. new > 0 => flagsWriteTick[p] <= end
      BY <1>1, <1>2 DEF EnqueuesFlags
    <3> QED BY <1>2, <2>1, <3>1 DEF Late, Larger, Smaller
  <2>4. /\ lateFailures' \cap {826, 844} \subseteq
             {l \in {826, 844} : \/ l = 826 /\ flagsWriteTick[p] < write
                                 \/ l = 844 /\ new > 0 /\ write + late # flagsWriteTick[p]}
        /\ lateWriteTick' = [lateWriteTick EXCEPT ![p] = write + late + new]
        /\ lateReadTick' = [lateReadTick EXCEPT ![p] = Discarded(read, write + late + new, new)]
    BY <1>3, <1>5 DEF LateReceived
  <2> HIDE DEF late, write, read, skipped
  <2>5. LateFlagsFollow'
    BY <1>2, <2>1, <2>3, <2>4 DEF LateFlagsFollow
  <2>6. new \in Nat
    BY <1>1, <1>2 DEF EnqueuesFlags
  <2>7. /\ lateReadTick' \in [Players -> Int] /\ lateWriteTick' \in [Players -> Int]
        /\ lateReadTick'[p] <= lateWriteTick'[p] /\ lateWriteTick'[p] <= flagsWriteTick'[p]
        /\ new = 0 => lateReadTick[p] <= lateReadTick'[p]
        /\ new > 0 => lateReadTick'[p] = flagsWriteTick'[p]
    <3>1. write + late + new \in Int /\ write + late + new <= flagsWriteTick'[p]
      BY <1>2, <2>1, <2>2, <2>6
    <3>2. /\ lateWriteTick'[p] = write + late + new
          /\ lateReadTick'[p] = Discarded(read, write + late + new, new)
      BY <2>4 DEF LateInvariant
    <3>3. CASE new > 0
      <4>1. lateReadTick'[p] = write + late + new
        BY <3>2, <3>3 DEF Discarded
      <4> HIDE DEF new
      <4>2. lateReadTick' \in [Players -> Int] /\ lateWriteTick' \in [Players -> Int]
        BY <2>4, <3>1, <3>2, <4>1 DEF LateInvariant
      <4>3. write + late + new = flagsWriteTick'[p]
        BY <1>2, <2>3, <3>3 DEF new
      <4> QED BY <3>1, <3>2, <3>3, <4>1, <4>2, <4>3, <2>6
    <3>4. CASE new = 0
      <4>1. lateReadTick'[p] = read
        BY <3>2, <3>4 DEF Discarded
      <4> HIDE DEF new
      <4>2. lateReadTick' \in [Players -> Int] /\ lateWriteTick' \in [Players -> Int]
        BY <2>1, <2>4, <3>1, <3>2, <4>1 DEF LateInvariant
      <4> QED BY <2>1, <2>2, <3>1, <3>2, <3>4, <4>1, <4>2
    <3> QED BY <2>6, <3>3, <3>4
  <2>8. ASSUME NEW q \in Players, q # p
        PROVE  /\ lateReadTick'[q] = lateReadTick[q] /\ lateWriteTick'[q] = lateWriteTick[q]
               /\ flagsWriteTick'[q] = flagsWriteTick[q]
    BY <1>1, <2>4, <2>8 DEF EnqueuesFlags, LateInvariant
  <2>9. ASSUME NEW q \in Players
        PROVE  lateReadTick'[q] <= lateWriteTick'[q] /\ lateWriteTick'[q] <= flagsWriteTick'[q]
    BY <1>2, <2>7, <2>8
  <2>10. ASSUME NEW q \in connected, lateReadTick'[q] < flagsWriteTick'[q] PROVE q \in laggingPlayers'
    <3>1. CASE UNCHANGED <<flagsWriteTick, laggingPlayers>>
      <4>1. new = 0
        BY <1>2, <3>1
      <4>2. lateReadTick[q] <= lateReadTick'[q] /\ lateReadTick'[q] \in Int
        BY <1>2, <2>7, <2>8, <4>1
      <4>3. lateReadTick[q] < flagsWriteTick[q]
        BY <1>2, <2>10, <3>1, <4>2
      <4> QED BY <2>10, <3>1, <4>3 DEF LateInvariant, LateFlagsAreLaggards
    <3>2. CASE flagsWriteTick[p] < flagsWriteTick'[p] /\ laggingPlayers' = laggingPlayers \ {p}
      <4>1. q # p
        BY <1>2, <2>7, <2>10, <3>2
      <4>2. lateReadTick[q] < flagsWriteTick[q]
        BY <1>2, <2>8, <2>10, <4>1
      <4> QED BY <2>10, <3>2, <4>1, <4>2 DEF LateInvariant, LateFlagsAreLaggards
    <3> QED BY <1>1, <3>1, <3>2 DEF EnqueuesFlags
  <2>11. LateFlagsAreLaggards'
    BY <1>1, <1>2, <2>9, <2>10 DEF LateFlagsAreLaggards
  <2> QED BY <1>1, <2>5, <2>7, <2>9, <2>11 DEF LateInvariant
<1> QED BY <1>4, <1>5

\* A death: only the dead player's queue changes.
LEMMA LateNetDeathInvariant ==
  ASSUME LateInvariant, HubOrNobody', LateNetDeath PROVE LateInvariant'
<1>1. /\ BookNetDeath /\ dying \in Players /\ dying \notin connected
      /\ UNCHANGED <<lateWriteTick, lateFailures>>
  BY FlagsAreTicks DEF LateNetDeath, BookNetDeath, LateInvariant
<1>2. /\ flagsWriteTick' = flagsWriteTick /\ connected' = connected
      /\ laggingPlayers \ {dying} \subseteq laggingPlayers'
  BY <1>1 DEF BookNetDeath, Abort, queueVars, lagVars, playerVars
<1>3. /\ lateReadTick'[dying] \in {lateReadTick[dying], lateWriteTick[dying]}
      /\ \A q \in Players : q # dying => lateReadTick'[q] = lateReadTick[q]
      /\ lateReadTick' \in [Players -> Int]
  BY <1>1 DEF LateNetDeath, Discarded, LateInvariant
<1>4. \A q \in connected : q # dying /\ q \in Players
  BY <1>1, FlagsAreTicks DEF LateInvariant
<1>5. \A q \in Players : lateReadTick'[q] <= lateWriteTick'[q] /\ lateWriteTick'[q] <= flagsWriteTick'[q]
  BY <1>1, <1>2, <1>3 DEF LateInvariant
<1>6. LateFlagsAreLaggards' /\ LateFlagsFollow'
  BY <1>1, <1>2, <1>3, <1>4, <1>5 DEF LateInvariant, LateFlagsAreLaggards, LateFlagsFollow
<1> QED BY <1>1, <1>3, <1>5, <1>6 DEF LateInvariant

\* Flags are made up for laggards only, out of flags that are there.
LEMMA LateTickEndInvariant ==
  ASSUME LateInvariant, HubOrNobody', LateTickEnd PROVE LateInvariant'
<1>1. HubTickEnd /\ UNCHANGED <<lateWriteTick, lateFailures>>
  BY DEF LateTickEnd
<1>2. /\ connected' = connected /\ laggingPlayers \subseteq laggingPlayers'
      /\ \/ flagsWriteTick' = flagsWriteTick
         \/ \A q \in Players : \/ flagsWriteTick'[q] = flagsWriteTick[q]
                               \/ flagsWriteTick'[q] = flagsWriteTick[q] + 1 /\ q \in laggingPlayers'
  <2>1. connected' = connected
    BY <1>1 DEF HubTickEnd, Abort, playerVars
  <2>2. CASE MakesUpFlags /\ flagsWriteTick' # flagsWriteTick
    <3>1. /\ laggingPlayers' = Laggards /\ Missing \subseteq Laggards
          /\ flagsWriteTick' = [i \in Players |-> IF i \in Missing
                                THEN smallestIncompleteTick + 1 ELSE flagsWriteTick[i]]
      BY <1>1, <2>2 DEF HubTickEnd, Abort, queueVars, MakesUpFlags
    <3> QED BY <2>1, <3>1 DEF Laggards, Missing
  <2>3. CASE ~MakesUpFlags \/ flagsWriteTick' = flagsWriteTick
    <3>1. laggingPlayers' \in {laggingPlayers, Laggards} /\ flagsWriteTick' = flagsWriteTick
      BY <1>1, <2>3 DEF HubTickEnd, Abort, queueVars, lagVars
    <3> QED BY <2>1, <3>1 DEF Laggards
  <2> QED BY <2>2, <2>3
<1>3. /\ connected \subseteq Players
      /\ \A q \in Players : /\ flagsWriteTick[q] \in Int /\ flagsWriteTick'[q] \in Int
                            /\ lateReadTick[q] \in Int /\ lateWriteTick[q] \in Int
                            /\ lateReadTick[q] <= lateWriteTick[q]
                            /\ lateWriteTick[q] <= flagsWriteTick[q]
  <2>1. \A q \in Players : flagsWriteTick'[q] \in Int
    BY Constants DEF HubOrNobody, HubInvariant, NobodyLeft, TypeOK
  <2> QED BY <2>1, FlagsAreTicks DEF LateInvariant
<1>4. ASSUME NEW q \in Players
      PROVE  /\ flagsWriteTick[q] <= flagsWriteTick'[q]
             /\ flagsWriteTick[q] < flagsWriteTick'[q] => q \in laggingPlayers'
  BY <1>2, <1>3
<1>5. ASSUME NEW q \in Players
      PROVE  /\ lateReadTick'[q] \in Int
             /\ lateReadTick[q] <= lateReadTick'[q] /\ lateReadTick'[q] <= lateWriteTick[q]
  <2>1. lateWriteTick[q] - lateReadTick[q] \in Nat
    BY <1>3
  <2>2. Used(lateWriteTick[q] - lateReadTick[q]) \in 0 .. lateWriteTick[q] - lateReadTick[q]
    BY <2>1, UsedIsThere
  <2>3. lateReadTick'[q] \in {lateReadTick[q], lateReadTick[q] + Used(lateWriteTick[q] - lateReadTick[q])}
    BY DEF LateTickEnd
  <2> QED BY <1>3, <2>2, <2>3
<1>6. ASSUME NEW q \in connected, lateReadTick'[q] < flagsWriteTick'[q] PROVE q \in laggingPlayers'
  <2>1. CASE flagsWriteTick[q] < flagsWriteTick'[q]
    BY <1>3, <1>4, <2>1
  <2>2. CASE flagsWriteTick'[q] = flagsWriteTick[q]
    <3>1. lateReadTick[q] < flagsWriteTick[q]
      BY <1>3, <1>5, <1>6, <2>2
    <3> QED BY <1>2, <1>6, <3>1 DEF LateInvariant, LateFlagsAreLaggards
  <2> QED BY <1>3, <1>4, <2>1, <2>2
<1>7. \A q \in Players : lateReadTick'[q] <= lateWriteTick'[q] /\ lateWriteTick'[q] <= flagsWriteTick'[q]
  BY <1>1, <1>3, <1>4, <1>5
<1>8. LateFlagsAreLaggards' /\ LateFlagsFollow'
  BY <1>1, <1>2, <1>3, <1>6, <1>7 DEF LateInvariant, LateFlagsAreLaggards, LateFlagsFollow
<1>9. lateReadTick' \in [Players -> Int]
  BY <1>5 DEF LateTickEnd
<1> QED BY <1>1, <1>7, <1>8, <1>9 DEF LateInvariant

\* Every step of a hub with late flags is one of StarHub.
LEMMA LateStepIsHubStep == ASSUME [LateNext]_lateVars PROVE [Next]_hubVars
<1>1. CASE \E p \in Players, ack, start, end \in FirstTick .. Horizon : LatePacket(p, ack, start, end)
  <2>1. \E p \in Players, ack, start, end \in FirstTick .. Horizon : SpokeSends(p, ack, start, end)
    BY <1>1 DEF LatePacket
  <2> QED BY <2>1 DEF Next
<1>2. CASE LateNetDeath \/ LateTickEnd
  BY <1>2 DEF LateNetDeath, LateTickEnd, Next, HubTick
<1>3. CASE LateElsewhere
  BY <1>3 DEF LateElsewhere, Next, HubTick
<1>4. CASE UNCHANGED lateVars
  BY <1>4 DEF lateVars
<1> QED BY <1>1, <1>2, <1>3, <1>4 DEF LateNext

LEMMA LateStepInvariant ==
  ASSUME LateInvariant, [LateNext]_lateVars PROVE LateInvariant'
<1>1. HubOrNobody'
  BY LateStepIsHubStep, AnyStepInvariant DEF LateInvariant
<1>2. CASE \E p \in Players, ack, start, end \in FirstTick .. Horizon : LatePacket(p, ack, start, end)
  BY <1>2, LatePacketInvariant
<1>3. CASE LateNetDeath
  BY <1>1, <1>3, LateNetDeathInvariant
<1>4. CASE LateTickEnd
  BY <1>1, <1>4, LateTickEndInvariant
<1>5. CASE LateElsewhere
  <2>1. connected' \subseteq connected /\ UNCHANGED <<flagsWriteTick, laggingPlayers>>
    BY <1>5 DEF LateElsewhere, ReceiveIdentification, HubTickBegin, ScanSurvivors, ScanNetDead,
                HubCleanup, HubCleanupEnd, queueVars, lagVars, playerVars
  <2> QED BY <1>1, <1>5, <2>1, UndisturbedLate DEF LateElsewhere
<1>6. CASE UNCHANGED lateVars
  BY <1>1, <1>6, UndisturbedLate DEF lateVars, hubVars, playerVars, queueVars, lagVars
<1> QED BY <1>2, <1>3, <1>4, <1>5, <1>6 DEF LateNext

-----------------------------------------------------------------------------
(* The theorems.                                                             *)

\* With its late flags the hub still is the hub: all that is proved of StarHub holds.
THEOREM LateHubIsHub == LateSpec => Spec
<1>1. LateInit => Init
  BY DEF LateInit
<1>2. [LateNext]_lateVars => [Next]_hubVars
  BY LateStepIsHubStep
<1> QED BY <1>1, <1>2, PTL DEF LateSpec, Spec

\* The invariant of a hub and its late flags.
THEOREM LateFlagsSafe == LateSpec => []LateInvariant
<1>1. LateInit => LateInvariant
  BY LateInitInvariant
<1>2. LateInvariant /\ [LateNext]_lateVars => LateInvariant'
  BY LateStepInvariant
<1> QED BY <1>1, <1>2, PTL DEF LateSpec

\* The asserts on lines 826 and 844 hold: late flags never overtake the others, and have
\* caught up when new ones come.
THEOREM LateFlagsAlwaysFollow == LateSpec => []LateFlagsFollow
<1>1. LateInvariant => LateFlagsFollow
  BY DEF LateInvariant
<1> QED BY <1>1, LateFlagsSafe, PTL

\* Only laggards owe flags or have late ones.
THEOREM LateFlagsAreAlwaysLaggards == LateSpec => []LateFlagsAreLaggards
<1>1. LateInvariant => LateFlagsAreLaggards
  BY DEF LateInvariant
<1> QED BY <1>1, LateFlagsSafe, PTL
=============================================================================
