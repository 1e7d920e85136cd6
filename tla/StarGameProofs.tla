-------------------------- MODULE StarGameProofs ---------------------------
(* The hub among real spokes, for any number of players, any queue sizes and *)
(* any losses: what StarHub assumes of its spokes is what they do, so that   *)
(* its theorems hold of the game, and the machines play in lockstep.         *)
EXTENDS StarGame, StarHubProofs

-----------------------------------------------------------------------------
(* Sequences of anything.                                                    *)

IsSequence(s) == \E S : s \in Seq(S)

LEMMA SequenceLength == ASSUME NEW s, IsSequence(s) PROVE Len(s) \in Nat /\ DOMAIN s = 1 .. Len(s)
BY DEF IsSequence

LEMMA EmptySequence == IsSequence(<< >>) /\ DOMAIN << >> = {}
<1>1. << >> \in Seq({})
  OBVIOUS
<1> QED BY <1>1 DEF IsSequence

LEMMA Concatenated ==
  ASSUME NEW s, NEW t, IsSequence(s), IsSequence(t)
  PROVE  IsSequence(s \o t)
<1>1. PICK S : s \in Seq(S)
  BY DEF IsSequence
<1>2. PICK T : t \in Seq(T)
  BY DEF IsSequence
<1>3. s \in Seq(S \cup T) /\ t \in Seq(S \cup T)
  BY <1>1, <1>2
<1>4. s \o t \in Seq(S \cup T)
  BY <1>3
<1> QED BY <1>4 DEF IsSequence

LEMMA Listed ==
  ASSUME NEW n \in Nat, NEW f, f = [k \in 1 .. n |-> f[k]]
  PROVE  IsSequence(f)
<1> DEFINE S == {f[k] : k \in 1 .. n}
<1>1. f \in [1 .. n -> S]
  OBVIOUS
<1>2. f \in Seq(S)
  BY <1>1
<1> QED BY <1>2 DEF IsSequence

\* A frame more on a wire: nothing else is new on it.
LEMMA OneMoreSent ==
  ASSUME NEW wire, NEW frame, IsSequence(wire)
  PROVE  /\ IsSequence(Sent(wire, frame))
         /\ \A k \in DOMAIN Sent(wire, frame) :
              \/ Sent(wire, frame)[k] = frame
              \/ \E j \in DOMAIN wire : Sent(wire, frame)[k] = wire[j]
<1>1. PICK S : wire \in Seq(S)
  BY DEF IsSequence
<1>2. wire \in Seq(S \cup {frame}) /\ frame \in S \cup {frame}
  BY <1>1
<1>3. CASE Len(wire) < InFlight
  <2>1. Sent(wire, frame) = Append(wire, frame)
    BY <1>3 DEF Sent
  <2>2. Append(wire, frame) \in Seq(S \cup {frame})
    BY <1>2
  <2>3. \A k \in DOMAIN Append(wire, frame) :
           Append(wire, frame)[k] = frame \/ (k \in DOMAIN wire /\ Append(wire, frame)[k] = wire[k])
    BY <1>2
  <2> QED BY <2>1, <2>2, <2>3 DEF IsSequence
<1>4. CASE ~ (Len(wire) < InFlight)
  <2>1. Sent(wire, frame) = Append(Tail(wire), frame)
    BY <1>4 DEF Sent
  <2>2. wire # << >>
    BY <1>2, <1>4, GameConstants
  <2>3. Tail(wire) \in Seq(S \cup {frame})
        /\ \A k \in DOMAIN Tail(wire) : k + 1 \in DOMAIN wire /\ Tail(wire)[k] = wire[k + 1]
    BY <1>2, <2>2
  <2>4. Append(Tail(wire), frame) \in Seq(S \cup {frame})
    BY <1>2, <2>3
  <2>5. \A k \in DOMAIN Append(Tail(wire), frame) :
           \/ Append(Tail(wire), frame)[k] = frame
           \/ k \in DOMAIN Tail(wire) /\ Append(Tail(wire), frame)[k] = Tail(wire)[k]
    BY <2>3
  <2> QED BY <2>1, <2>3, <2>4, <2>5 DEF IsSequence
<1> QED BY <1>3, <1>4
-----------------------------------------------------------------------------
(* The inductive invariant, apart from the hub's own.                        *)

\* Deaths are dated once, and a tick has passed since the last frame when hub_tick decides to send.
HubBooks ==
  /\ \A i \in connected : netDeadTick[i] = FirstTick - 1
  /\ scan # NONE => sinceSent >= 1

\* A frame of p on its way: acknowledges what was sent, offers what was made.
FrameToHubSound(p, f) ==
  f.type = "game data" =>
    /\ f.ack \in FirstTick .. smallestUnsentTick
    /\ f.start \in FirstTick .. Horizon /\ f.end \in FirstTick .. Horizon
    /\ f.start <= f.end

\* A frame for p on its way: acknowledges what the hub has, holds what it has sent, and those it
\* calls dead are not in the game any more.
FrameToSpokeSound(p, f) ==
  /\ f.ack \in FirstTick .. flagsWriteTick[p]
  /\ f.adjustment \in Int
  /\ f.flags = [t \in DOMAIN f.flags |-> f.flags[t]]
  /\ DOMAIN f.flags \subseteq FirstTick .. smallestUnsentTick - 1
  /\ \A death \in f.deaths : death[1] \notin connected

WiresSound ==
  /\ toHub = [p \in Players |-> toHub[p]] /\ toSpoke = [p \in Players |-> toSpoke[p]]
  /\ \A p \in Players :
       /\ IsSequence(toHub[p]) /\ IsSequence(toSpoke[p])
       /\ \A k \in DOMAIN toHub[p] : FrameToHubSound(p, toHub[p][k])
       /\ \A k \in DOMAIN toSpoke[p] : FrameToSpokeSound(p, toSpoke[p][k])

\* A spoke's queues and what it believes of the hub.
SpokesSound ==
  /\ Players \ Zombies # {}
  /\ outgoingReadTick \in [Players -> FirstTick .. Horizon]
  /\ outgoingWriteTick \in [Players -> FirstTick .. Horizon]
  /\ unconfirmedReadTick \in [Players -> Int]
  /\ unconfirmedWriteTick \in [Players -> Int]
  /\ smallestUnconfirmedTick \in [Players -> Int]
  /\ smallestUnreceivedTick \in [Players -> FirstTick .. Horizon]
  /\ requestedAdjustment \in [Players -> Int]
  /\ outstandingAdjustment \in [Players -> Int]
  /\ gameTicks \in [Players -> Nat]
  /\ gameFlags = [p \in Players |-> [q \in Players |-> gameFlags[p][q]]]
  /\ \A p, q \in Players : IsSequence(gameFlags[p][q])
  /\ stillConnected = [p \in Players |-> stillConnected[p]]
  /\ \A p \in Players :
       /\ outgoingReadTick[p] <= outgoingWriteTick[p]
       /\ outgoingReadTick[p] <= flagsWriteTick[p]
       /\ smallestUnreceivedTick[p] <= smallestUnsentTick
       /\ connected \subseteq stillConnected[p]

\* p knows, or is about to learn, that all others are dead.
ToldAlone(p) ==
  \A q \in Players \ {p} :
    \/ q \notin stillConnected[p]
    \/ \E k \in DOMAIN toSpoke[p] : \E death \in toSpoke[p][k].deaths : death[1] = q

\* Then every tick of its own that it knows acknowledged has been sent to it.
AloneIsSent ==
  \A p \in Players : ToldAlone(p) =>
    /\ outgoingReadTick[p] <= smallestUnsentTick
    /\ \A k \in DOMAIN toSpoke[p] : toSpoke[p][k].ack <= smallestUnsentTick

GameInvariant == HubInvariant /\ HubBooks /\ WiresSound /\ SpokesSound /\ AloneIsSent

-----------------------------------------------------------------------------
(* What a step of the hub does to the spokes' view of it.                    *)

HubAdvances ==
  /\ HubInvariant' /\ HubBooks'
  /\ connected' \subseteq connected
  /\ \A i \in Players : flagsWriteTick[i] <= flagsWriteTick'[i]
  /\ smallestUnsentTick <= smallestUnsentTick'
  /\ HubSends => /\ smallestUnsentTick' = smallestIncompleteTick'
                 /\ dying' = NONE /\ connected' = connected
\* Game data: the flags queues grow, and what is sent is everything complete.
LEMMA GameDataAdvances ==
  ASSUME HubInvariant, HubBooks,
         NEW p \in Players, NEW ack \in FirstTick .. Horizon,
         NEW start \in FirstTick .. Horizon, NEW end \in FirstTick .. Horizon,
         ReceiveGameData(p, ack, start, end)
  PROVE  HubAdvances
<1>1. /\ HubInvariant' /\ smallestIncompleteTick <= smallestIncompleteTick'
      /\ \A i \in Players : flagsWriteTick[i] <= flagsWriteTick'[i]
      /\ smallestUnsentTick' \in {smallestUnsentTick, smallestIncompleteTick'}
      /\ UNCHANGED <<connected, netDeadTick, scan>>
  BY GameDataInvariant
<1>2. scan = NONE
  BY DEF ReceiveGameData, MutexFree
<1>3. dying' = NONE
  BY <1>1, <1>2, Constants DEF HubInvariant, LoopState
<1>4. smallestUnsentTick \in Int /\ smallestIncompleteTick \in Int
      /\ smallestUnsentTick <= smallestIncompleteTick /\ smallestIncompleteTick' \in Int
  BY <1>1, Constants DEF HubInvariant, TypeOK, QueuesLineUp
<1>5. HubBooks'
  BY <1>1, <1>2 DEF HubBooks
<1>6. HubSends => smallestUnsentTick' = smallestIncompleteTick'
  BY <1>1, <1>2, Constants DEF HubSends, NONE
<1> QED BY <1>1, <1>3, <1>4, <1>5, <1>6 DEF HubAdvances

\* The steps that move no queue and send nothing.
LEMMA QuietAdvances ==
  ASSUME HubInvariant, HubInvariant', HubBooks', UNCHANGED <<flagsWriteTick, smallestUnsentTick>>,
         connected' \subseteq connected, ~ (scan = NumPlayers /\ scan' = NONE)
  PROVE  HubAdvances
<1>1. smallestUnsentTick \in Int /\ \A i \in Players : flagsWriteTick[i] \in Int
  BY Constants DEF HubInvariant, TypeOK
<1>2. ~HubSends
  BY DEF HubSends
<1> QED BY <1>1, <1>2 DEF HubAdvances

LEMMA TickAdvances ==
  ASSUME ~Standalone, HubInvariant, HubBooks, HubTick
  PROVE  HubAdvances
<1>1. CASE HubTickBegin
  <2>1. HubInvariant' /\ scan = NONE
    BY <1>1, TickBeginInvariant DEF HubTickBegin, MutexFree
  <2>2. /\ UNCHANGED <<connected, netDeadTick, flagsWriteTick, smallestUnsentTick>>
        /\ sinceSent' = Smaller(sinceSent + 1, RecoverySendPeriod)
    BY <1>1 DEF HubTickBegin, playerVars, queueVars
  <2>3. sinceSent' >= 1
    <3>1. sinceSent \in 0 .. RecoverySendPeriod
      BY DEF HubInvariant, TypeOK
    <3>2. RecoverySendPeriod \in Nat /\ RecoverySendPeriod >= 1
      BY HubConstants
    <3> QED BY <2>2, <3>1, <3>2 DEF Smaller
  <2>4. HubBooks'
    BY <2>2, <2>3 DEF HubBooks
  <2>5. scan # NumPlayers
    BY <2>1, Constants DEF NONE
  <2> QED BY <2>1, <2>2, <2>4, <2>5, QuietAdvances
<1>2. CASE ScanSurvivors
  <2>1. HubInvariant' /\ scan \in Players
    BY <1>2, SurvivorInvariant DEF ScanSurvivors
  <2>2. UNCHANGED <<connected, netDeadTick, flagsWriteTick, smallestUnsentTick, sinceSent>>
    BY <1>2 DEF ScanSurvivors, playerVars, queueVars, sendVars
  <2>3. HubBooks'
    BY <2>1, <2>2, Constants DEF HubBooks
  <2> QED BY <2>1, <2>2, <2>3, QuietAdvances, Constants
<1>3. CASE ScanNetDead
  <2>1. HubInvariant' /\ scan \in Players
    BY <1>3, NetDeadInvariant DEF ScanNetDead
  <2>2. /\ connected' = connected \ {scan}
        /\ netDeadTick' = [i \in Players |-> IF i \in {scan} THEN smallestIncompleteTick
                                                             ELSE netDeadTick[i]]
        /\ UNCHANGED <<flagsWriteTick, smallestUnsentTick, sinceSent, scan>>
    BY <1>3 DEF ScanNetDead, queueVars, sendVars
  <2>3. \A i \in connected' : netDeadTick'[i] = netDeadTick[i]
    BY <2>2 DEF HubInvariant, TypeOK
  <2>4. HubBooks'
    BY <2>2, <2>3 DEF HubBooks
  <2> QED BY <2>1, <2>2, <2>4, QuietAdvances, Constants
<1>4. CASE BookNetDeath
  <2>1. HubInvariant' /\ scan \in Players
    BY <1>4, BookNetDeathInvariant DEF BookNetDeath, HubInvariant, LoopState
  <2>2. UNCHANGED <<connected, netDeadTick, flagsWriteTick, smallestUnsentTick, sinceSent>>
    BY <1>4 DEF BookNetDeath, Abort, playerVars, queueVars, sendVars
  <2>3. HubBooks'
    BY <2>1, <2>2, Constants DEF HubBooks
  <2> QED BY <2>1, <2>2, <2>3, QuietAdvances, Constants
<1>5. CASE HubTickEnd
  <2>1. HubInvariant' /\ scan = NumPlayers
    BY <1>5, TickEndInvariant DEF HubTickEnd
  <2>2. UNCHANGED <<connected, netDeadTick>>
    BY <1>5 DEF HubTickEnd, Abort, playerVars
  <2>3. /\ smallestUnsentTick \in Int /\ smallestIncompleteTick \in Int
        /\ smallestUnsentTick <= smallestIncompleteTick
        /\ \A i \in Players : flagsWriteTick[i] \in Int
        /\ sinceSent \in Int /\ sinceSent >= 1
        /\ flagsWriteTick \in [Players -> FirstTick .. Horizon]
    <3>1. scan # NONE
      BY <2>1, Constants DEF NONE
    <3>2. sinceSent >= 1
      BY <3>1 DEF HubBooks
    <3>3. sinceSent \in Int
      BY HubConstants DEF HubInvariant, TypeOK
    <3> QED BY <3>2, <3>3, Constants DEF HubInvariant, TypeOK, QueuesLineUp
  <2>4. CASE \E lines : Abort(lines)
    <3>1. UNCHANGED <<flagsWriteTick, smallestUnsentTick, scan, sinceSent>>
      BY <2>4 DEF Abort, queueVars, sendVars, tickVars
    <3>2. HubBooks'
      BY <2>2, <3>1 DEF HubBooks
    <3>3. scan' # NONE
      BY <2>1, <3>1, Constants DEF NONE
    <3> QED BY <2>1, <2>2, <3>1, <3>2, <3>3, QuietAdvances
  <2>5. CASE ~ \E lines : Abort(lines)
    <3>1. /\ scan' = NONE
          /\ \/ flagsWriteTick' = flagsWriteTick /\ smallestIncompleteTick' = smallestIncompleteTick
             \/ /\ flagsWriteTick' = [i \in Players |-> IF i \in Missing
                          THEN smallestIncompleteTick + 1 ELSE flagsWriteTick[i]]
                /\ smallestIncompleteTick' = smallestIncompleteTick + 1
          /\ \/ smallestUnsentTick' = smallestIncompleteTick'
             \/ smallestUnsentTick' = smallestUnsentTick /\ sinceSent' = sinceSent
      BY <1>5, <2>5 DEF HubTickEnd, SendPacketsIf
    <3>2. \A i \in Players : flagsWriteTick[i] <= flagsWriteTick'[i]
      BY <2>3, <3>1 DEF Missing
    <3>3. HubSends => smallestUnsentTick' = smallestIncompleteTick'
      BY <2>3, <3>1 DEF HubSends
    <3>4. dying' = NONE
      BY <2>1, <3>1, Constants DEF HubInvariant, LoopState
    <3>5. HubBooks'
      BY <2>2, <3>1 DEF HubBooks
    <3>6. smallestUnsentTick <= smallestUnsentTick'
      BY <2>3, <3>1
    <3> QED BY <2>1, <2>2, <3>2, <3>3, <3>4, <3>5, <3>6 DEF HubAdvances
  <2> QED BY <2>4, <2>5
<1> QED BY <1>1, <1>2, <1>3, <1>4, <1>5 DEF HubTick

\* Its other steps.
LEMMA OtherHubStepsAdvance ==
  ASSUME HubInvariant, HubBooks,
         \/ \E p \in Players : ReceiveIdentification(p)
         \/ HubCleanupEnd \/ \E graceful \in BOOLEAN, t \in PostGameTicks : HubCleanup(graceful, t)
  PROVE  HubAdvances /\ ~HubSends
<1>1. /\ UNCHANGED <<connected, netDeadTick, flagsWriteTick, smallestUnsentTick, scan, sinceSent>>
      /\ scan = NONE
  BY DEF ReceiveIdentification, HubCleanup, HubCleanupEnd, MutexFree, playerVars, queueVars,
         sendVars, tickVars
<1>2. HubInvariant'
  BY IdentificationInvariant, CleanupInvariant
<1>3. HubBooks'
  BY <1>1 DEF HubBooks
<1>4. scan # NumPlayers
  BY <1>1, Constants DEF NONE
<1>5. HubAdvances
  BY <1>1, <1>2, <1>3, <1>4, QuietAdvances
<1> QED BY <1>1, <1>4, <1>5 DEF HubSends

-----------------------------------------------------------------------------
(* What the hub sends.                                                       *)

\* Whatever is sent, and to whom it is complete, is sound.
LEMMA SentIsSound ==
  ASSUME HubInvariant, HubBooks, smallestUnsentTick = smallestIncompleteTick,
         NEW i \in connected, NEW large, NEW a \in Int
  PROVE  FrameToSpokeSound(i, HubFrame(i, large, a))
<1> DEFINE f == HubFrame(i, large, a)
           acked == smallestUnacknowledgedTick[i]
<1>1. /\ i \in Players /\ smallestIncompleteTick \in Int /\ acked \in Int /\ FirstTick <= acked
      /\ flagsWriteTick[i] \in FirstTick .. Horizon
  BY Constants DEF HubInvariant, TypeOK
<1>2. UpdateRange(i, large)[1] \in Int /\ FirstTick <= UpdateRange(i, large)[1]
      /\ UpdateRange(i, large)[2] \in Int /\ UpdateRange(i, large)[2] <= smallestIncompleteTick
  <2>1. RecoveryTicks \in Nat /\ IncrementalTicks \in Nat
    BY GameConstants
  <2>2. /\ Smaller(acked + RecoveryTicks, smallestIncompleteTick) \in Int
        /\ Smaller(acked + RecoveryTicks, smallestIncompleteTick) <= smallestIncompleteTick
        /\ Larger(smallestIncompleteTick - IncrementalTicks, acked) \in Int
        /\ FirstTick <= Larger(smallestIncompleteTick - IncrementalTicks, acked)
    BY <1>1, <2>1, Constants DEF Smaller, Larger
  <2>3. UpdateRange(i, large) \in {<<acked, smallestIncompleteTick>>,
           <<acked, Smaller(acked + RecoveryTicks, smallestIncompleteTick)>>,
           <<Larger(smallestIncompleteTick - IncrementalTicks, acked), smallestIncompleteTick>>}
    BY DEF UpdateRange
  <2> QED BY <1>1, <2>2, <2>3
<1>3. f.ack \in FirstTick .. flagsWriteTick[i] /\ f.adjustment \in Int
  BY <1>1, Constants DEF HubFrame, Acknowledgement
<1>4. f.flags = [t \in DOMAIN f.flags |-> f.flags[t]]
      /\ DOMAIN f.flags \subseteq UpdateRange(i, large)[1] .. UpdateRange(i, large)[2] - 1
  <2>1. \E S, g : S \subseteq UpdateRange(i, large)[1] .. UpdateRange(i, large)[2] - 1
                  /\ f.flags = [t \in S |-> g[t]]
    <3> DEFINE ticks == UpdateRange(i, large)[1] .. UpdateRange(i, large)[2] - 1
               reflects == \E t \in ticks : i \in playerReflectedFlags[t]
               sent(t) == {j \in Players : Contributes(j, t) /\ (j = i => reflects)}
               S == {u \in ticks : sent(u) # {}}
               g == [t \in S |-> [j \in sent(t) |-> IF j \in playerReflectedFlags[t]
                                                 THEN MadeUp(t) ELSE Real(t)]]
    <3>1. f.flags = g
      BY DEF HubFrame
    <3>2. g = [t \in S |-> g[t]]
      OBVIOUS
    <3> HIDE DEF g
    <3> QED BY <3>1, <3>2
  <2> HIDE DEF f
  <2> QED BY <2>1
<1>5. DOMAIN f.flags \subseteq FirstTick .. smallestUnsentTick - 1
  <2> HIDE DEF f
  <2> QED BY <1>1, <1>2, <1>4, Constants
<1>6. ASSUME NEW death \in f.deaths PROVE death[1] \notin connected
  <2>1. PICK j \in Players : death = <<j, netDeadTick[j]>> /\ acked <= netDeadTick[j]
    BY <1>6 DEF HubFrame
  <2>2. j \in connected => netDeadTick[j] = FirstTick - 1
    BY DEF HubBooks
  <2> QED BY <1>1, <2>1, <2>2, Constants
<1> QED BY <1>3, <1>4, <1>5, <1>6 DEF FrameToSpokeSound

AllIsSent == smallestUnsentTick = smallestIncompleteTick
SendsWhatIsSound ==
  \A i \in connected : \A large, a : a \in Int => FrameToSpokeSound(i, HubFrame(i, large, a))

LEMMA SentIsSoundNext == HubInvariant' /\ HubBooks' /\ AllIsSent' => SendsWhatIsSound'
<1>1. HubInvariant /\ HubBooks /\ AllIsSent => SendsWhatIsSound
  BY SentIsSound DEF SendsWhatIsSound, AllIsSent
<1> QED BY <1>1, PTL

\* The flags of the last player in the game are complete.
AloneIsComplete ==
  dying = NONE => \A p \in Players : connected \subseteq {p} /\ p \in connected =>
                                       flagsWriteTick[p] <= smallestIncompleteTick

LEMMA HubLeavesOneComplete == HubInvariant => AloneIsComplete
<1> SUFFICES ASSUME HubInvariant, dying = NONE, NEW p \in connected, connected \subseteq {p}
             PROVE  flagsWriteTick[p] <= smallestIncompleteTick
  BY DEF AloneIsComplete
<1>1. /\ p \in Players /\ flagsWriteTick[p] \in Int /\ smallestIncompleteTick \in Int
      /\ FirstTick <= smallestIncompleteTick
      /\ dispositionReadTick \in Int /\ dispositionWriteTick \in Int /\ dispositionWriteTick <= Horizon
      /\ dispositionReadTick <= smallestIncompleteTick
      /\ flagsWriteTick[p] <= dispositionWriteTick
  BY Constants DEF HubInvariant, TypeOK, QueuesLineUp
<1>2. Booked = {p}
  BY DEF Booked, HubInvariant, LoopState
<1>3. CASE smallestIncompleteTick < dispositionWriteTick
  <2>1. smallestIncompleteTick \in Ticks
    BY <1>1, <1>3, Constants
  <2>2. /\ playerDataDisposition[smallestIncompleteTick]
             = {i \in Booked : flagsWriteTick[i] <= smallestIncompleteTick}
        /\ playerDataDisposition[smallestIncompleteTick] # {}
    BY <1>1, <1>2, <1>3, <2>1 DEF HubInvariant, DispositionIsExact
  <2> QED BY <1>2, <2>2
<1>4. CASE ~ (smallestIncompleteTick < dispositionWriteTick)
  BY <1>1, <1>4
<1> QED BY <1>3, <1>4

-----------------------------------------------------------------------------
(* A step of the hub keeps everything sound.                                 *)

\* What is left of a wire to the hub when a frame may have been taken.
OnlyTakenFromHub ==
  /\ toHub' = [p \in Players |-> toHub'[p]]
  /\ \A p \in Players : toHub'[p] = toHub[p] \/ toHub'[p] = << >>

LEMMA HubStepKeeps ==
  ASSUME GameInvariant, HubAdvances, UNCHANGED spokeVars, OnlyTakenFromHub,
         NEW large, NEW asks, HubWires(large, asks), \A i \in DOMAIN asks : asks[i] \in Int
  PROVE  GameInvariant'
<1>1. /\ connected' \subseteq connected
      /\ smallestUnsentTick \in Int /\ smallestUnsentTick' \in Int
      /\ smallestUnsentTick <= smallestUnsentTick'
      /\ \A i \in Players : /\ flagsWriteTick[i] \in Int /\ flagsWriteTick'[i] \in Int
                            /\ flagsWriteTick[i] <= flagsWriteTick'[i]
  BY Constants DEF GameInvariant, HubAdvances, HubInvariant, TypeOK
<1>2. HubSends => SendsWhatIsSound' /\ AloneIsComplete' /\ AllIsSent'
  <2>1. HubInvariant' => AloneIsComplete'
    BY HubLeavesOneComplete, PTL
  <2> QED BY <2>1, SentIsSoundNext DEF HubAdvances, AllIsSent
<1>3. ASSUME NEW p \in Players
      PROVE  \/ toSpoke'[p] = toSpoke[p]
             \/ /\ HubSends /\ p \in connected'
                /\ \E f : FrameToSpokeSound(p, f)' /\ toSpoke'[p] = Sent(toSpoke[p], f)
  <2>1. CASE ~HubSends
    BY <2>1 DEF HubWires
  <2>2. CASE HubSends
    <3> DEFINE b == IF p \in DOMAIN asks THEN asks[p] ELSE 0
               f == HubFrame(p, p \in large, b)
    <3>1. toSpoke'[p] = IF p \in connected /\ p \in addressKnown THEN Sent(toSpoke[p], f') ELSE toSpoke[p]
      BY <2>2 DEF HubWires
    <3>2. ASSUME p \in connected' PROVE FrameToSpokeSound(p, f)'
      BY <1>2, <2>2, <3>2 DEF SendsWhatIsSound
    <3> HIDE DEF f
    <3>3. ASSUME p \in connected' PROVE \E g : FrameToSpokeSound(p, g)' /\ g = f'
      BY <3>2, <3>3 DEF FrameToSpokeSound
    <3>4. connected' = connected
      BY <2>2 DEF HubAdvances
    <3> QED BY <2>2, <3>1, <3>3, <3>4
  <2> QED BY <2>1, <2>2
<1>4. ASSUME NEW p \in Players, NEW f, FrameToHubSound(p, f)
      PROVE  FrameToHubSound(p, f)'
  <2>1. ASSUME f.ack \in FirstTick .. smallestUnsentTick PROVE f.ack \in FirstTick .. smallestUnsentTick'
    BY <1>1, <2>1, Constants
  <2> QED BY <1>4, <2>1 DEF FrameToHubSound
<1>5. ASSUME NEW p \in Players, NEW f, FrameToSpokeSound(p, f)
      PROVE  FrameToSpokeSound(p, f)'
  <2>1. f.ack \in FirstTick .. flagsWriteTick'[p]
    BY <1>1, <1>5, Constants DEF FrameToSpokeSound
  <2>2. DOMAIN f.flags \subseteq FirstTick .. smallestUnsentTick' - 1
    BY <1>1, <1>5, Constants DEF FrameToSpokeSound
  <2> QED BY <1>1, <1>5, <2>1, <2>2 DEF FrameToSpokeSound
<1>6. ASSUME NEW p \in Players
      PROVE  /\ IsSequence(toSpoke'[p])
             /\ \A k \in DOMAIN toSpoke'[p] : FrameToSpokeSound(p, toSpoke[p][k])'
  <2>1. /\ IsSequence(toSpoke[p])
        /\ \A k \in DOMAIN toSpoke[p] : FrameToSpokeSound(p, toSpoke[p][k])
    BY DEF GameInvariant, WiresSound
  <2>2. \A k \in DOMAIN toSpoke[p] : \E g : g = toSpoke[p][k] /\ FrameToSpokeSound(p, g)'
    BY <1>5, <2>1
  <2>3. CASE toSpoke'[p] = toSpoke[p]
    <3>1. ASSUME NEW k \in DOMAIN toSpoke'[p] PROVE FrameToSpokeSound(p, toSpoke[p][k])'
      <4>1. PICK g : g = toSpoke'[p][k] /\ FrameToSpokeSound(p, g)'
        BY <2>2, <2>3
      <4> QED BY <4>1 DEF FrameToSpokeSound
    <3> QED BY <2>1, <2>3, <3>1
  <2>4. ASSUME NEW f, FrameToSpokeSound(p, f)', toSpoke'[p] = Sent(toSpoke[p], f)
        PROVE  /\ IsSequence(toSpoke'[p])
               /\ \A k \in DOMAIN toSpoke'[p] : FrameToSpokeSound(p, toSpoke[p][k])'
    <3>1. /\ IsSequence(toSpoke'[p])
          /\ \A k \in DOMAIN toSpoke'[p] :
               \/ toSpoke'[p][k] = f
               \/ \E j \in DOMAIN toSpoke[p] : toSpoke'[p][k] = toSpoke[p][j]
      BY <2>1, <2>4, OneMoreSent
    <3>2. ASSUME NEW k \in DOMAIN toSpoke'[p] PROVE \E g : g = toSpoke'[p][k] /\ FrameToSpokeSound(p, g)'
      BY <2>2, <2>4, <3>1
    <3> QED BY <3>1, <3>2 DEF FrameToSpokeSound
  <2> QED BY <1>3, <2>3, <2>4
<1>7. WiresSound'
  <2>1. toSpoke' = [p \in Players |-> toSpoke'[p]]
    BY DEF HubWires, GameInvariant, WiresSound
  <2>2. ASSUME NEW p \in Players
        PROVE  /\ IsSequence(toHub'[p])
               /\ \A k \in DOMAIN toHub'[p] : FrameToHubSound(p, toHub[p][k])'
    <3>1. CASE toHub'[p] = << >>
      BY <3>1, EmptySequence
    <3>2. CASE toHub'[p] = toHub[p]
      <4>1. IsSequence(toHub[p]) /\ \A k \in DOMAIN toHub[p] : FrameToHubSound(p, toHub[p][k])
        BY DEF GameInvariant, WiresSound
      <4>2. \A k \in DOMAIN toHub[p] : \E g : g = toHub[p][k] /\ FrameToHubSound(p, g)'
        BY <1>4, <4>1
      <4> QED BY <3>2, <4>1, <4>2 DEF FrameToHubSound
    <3> QED BY <3>1, <3>2 DEF OnlyTakenFromHub
  <2> QED BY <1>6, <2>1, <2>2 DEF WiresSound, OnlyTakenFromHub
<1>8. SpokesSound'
  <2>1. \A p \in Players : /\ outgoingReadTick[p] \in Int /\ smallestUnreceivedTick[p] \in Int
                          /\ outgoingReadTick[p] <= flagsWriteTick[p]
                          /\ smallestUnreceivedTick[p] <= smallestUnsentTick
    BY Constants DEF GameInvariant, SpokesSound
  <2>2. \A p \in Players : /\ outgoingReadTick[p] <= flagsWriteTick'[p]
                          /\ smallestUnreceivedTick[p] <= smallestUnsentTick'
    BY <1>1, <2>1
  <2> QED BY <1>1, <2>2 DEF GameInvariant, SpokesSound, spokeVars, spokeQueueVars, viewVars,
                            receivedVars, timingVars
<1>9. AloneIsSent'
  <2> SUFFICES ASSUME NEW p \in Players, ToldAlone(p)'
               PROVE  /\ outgoingReadTick[p] <= smallestUnsentTick'
                      /\ \A k \in DOMAIN toSpoke'[p] : toSpoke'[p][k].ack <= smallestUnsentTick'
    BY DEF AloneIsSent, spokeVars, spokeQueueVars
  <2>1. outgoingReadTick[p] \in Int /\ outgoingReadTick[p] <= flagsWriteTick'[p]
        /\ outgoingReadTick[p] <= outgoingWriteTick[p]
    BY <1>1, Constants DEF GameInvariant, SpokesSound
  <2>2. \A k \in DOMAIN toSpoke'[p] : /\ toSpoke'[p][k].ack \in FirstTick .. flagsWriteTick'[p]
                                       /\ \A death \in toSpoke'[p][k].deaths : death[1] \notin connected'
    BY <1>7 DEF WiresSound, FrameToSpokeSound
  <2>3. CASE toSpoke'[p] = toSpoke[p]
    <3>1. ToldAlone(p)
      BY <2>3 DEF ToldAlone, spokeVars, viewVars
    <3>2. /\ outgoingReadTick[p] <= smallestUnsentTick
          /\ \A k \in DOMAIN toSpoke[p] : toSpoke[p][k].ack <= smallestUnsentTick
      BY <3>1 DEF GameInvariant, AloneIsSent
    <3>3. \A k \in DOMAIN toSpoke[p] : toSpoke[p][k].ack \in Int
      BY <2>2, <2>3, Constants
    <3> QED BY <1>1, <2>1, <2>3, <3>2, <3>3
  <2>4. CASE HubSends /\ p \in connected'
    <3>1. connected' \subseteq stillConnected'[p] /\ connected' \subseteq Players
      BY <1>8 DEF SpokesSound, HubAdvances, HubInvariant, TypeOK
    <3>2. connected' \subseteq {p}
      BY <2>2, <3>1 DEF ToldAlone
    <3>3. flagsWriteTick'[p] <= smallestUnsentTick'
      BY <1>2, <2>4, <3>2 DEF AloneIsComplete, AllIsSent, HubAdvances
    <3> QED BY <1>1, <2>1, <2>2, <3>3, Constants
  <2> QED BY <1>3, <2>3, <2>4
<1> QED BY <1>7, <1>8, <1>9 DEF GameInvariant, HubAdvances

-----------------------------------------------------------------------------
(* What the spokes do.                                                       *)

LEMMA SpokeNumbers ==
  ASSUME SpokesSound, NEW p \in Players
  PROVE  /\ outgoingReadTick[p] \in Int /\ outgoingWriteTick[p] \in Int
         /\ outgoingWriteTick[p] <= Horizon /\ FirstTick <= outgoingWriteTick[p]
         /\ unconfirmedReadTick[p] \in Int /\ unconfirmedWriteTick[p] \in Int
         /\ smallestUnconfirmedTick[p] \in Int /\ gameTicks[p] \in Int
         /\ outstandingAdjustment[p] \in Int
         /\ \A q \in Players : IsSequence(gameFlags[p][q]) /\ Len(gameFlags[p][q]) \in Nat
         /\ IsSequence(Unconfirmed(p)) /\ Len(Unconfirmed(p)) \in Nat
         /\ Horizon \in Int /\ StartingTick \in Int /\ ActionQueueSize \in Int
         /\ OutgoingFlagsQueueSize \in Int
<1>1. /\ outgoingReadTick[p] \in Int /\ outgoingWriteTick[p] \in Int
      /\ outgoingWriteTick[p] <= Horizon /\ FirstTick <= outgoingWriteTick[p]
      /\ unconfirmedReadTick[p] \in Int /\ unconfirmedWriteTick[p] \in Int
      /\ smallestUnconfirmedTick[p] \in Int /\ gameTicks[p] \in Int
      /\ outstandingAdjustment[p] \in Int
  BY Constants DEF SpokesSound
<1>2. \A q \in Players : IsSequence(gameFlags[p][q]) /\ Len(gameFlags[p][q]) \in Nat
  BY SequenceLength DEF SpokesSound
<1>3. IsSequence(Unconfirmed(p))
  <2> DEFINE n == Larger(unconfirmedWriteTick[p] - smallestUnconfirmedTick[p], 0)
  <2>1. n \in Nat
    BY <1>1 DEF Larger
  <2>2. Unconfirmed(p) = [k \in 1 .. n |-> Unconfirmed(p)[k]]
    BY DEF Unconfirmed
  <2> HIDE DEF n
  <2> QED BY <2>1, <2>2, Listed
<1>4. /\ Horizon \in Int /\ StartingTick \in Int /\ ActionQueueSize \in Int
      /\ OutgoingFlagsQueueSize \in Int
  BY Constants, SpokeConstants
<1> QED BY <1>1, <1>2, <1>3, <1>4, SequenceLength

LEMMA FlagsFit ==
  ASSUME SpokesSound, NEW p \in Players
  PROVE  /\ FlagsProvided(p) \in Nat /\ StillOutstanding(p) \in Int
         /\ spokeConnected[p] => outgoingWriteTick[p] + FlagsProvided(p) <= Horizon
<1>1. FlagsRoom(p) \in Int /\ (spokeConnected[p] => FlagsRoom(p) <= Horizon - outgoingWriteTick[p])
  <2> DEFINE outgoing == OutgoingFlagsQueueSize - (outgoingWriteTick[p] - outgoingReadTick[p])
             unconfirmed == OutgoingFlagsQueueSize - (unconfirmedWriteTick[p] - unconfirmedReadTick[p])
             pregame == Larger(StartingTick - outgoingWriteTick[p], 0)
             bound == Horizon - outgoingWriteTick[p]
             own == ActionQueueSize - (Len(gameFlags[p][p]) - gameTicks[p])
             toMake == Horizon - GameWriteTick(p, p) - Len(Unconfirmed(p))
  <2>1. /\ outgoing \in Int /\ unconfirmed \in Int /\ pregame \in Int /\ bound \in Int
        /\ own \in Int /\ toMake \in Int
    <3>1. outgoing \in Int /\ unconfirmed \in Int /\ bound \in Int
      <4>1. /\ outgoingReadTick[p] \in Int /\ outgoingWriteTick[p] \in Int
            /\ unconfirmedReadTick[p] \in Int /\ unconfirmedWriteTick[p] \in Int
            /\ OutgoingFlagsQueueSize \in Int /\ Horizon \in Int
        BY SpokeNumbers
      <4> QED BY <4>1
    <3>2. pregame \in Int
      BY SpokeNumbers DEF Larger
    <3>3. own \in Int /\ toMake \in Int
      <4>1. Len(gameFlags[p][p]) \in Int /\ Len(Unconfirmed(p)) \in Int
        BY SpokeNumbers
      <4>2. gameTicks[p] \in Int /\ Horizon \in Int /\ StartingTick \in Int /\ ActionQueueSize \in Int
        BY SpokeNumbers
      <4> QED BY <4>1, <4>2 DEF GameWriteTick
    <3> QED BY <3>1, <3>2, <3>3
  <2>2. FlagsRoom(p) = IF ~spokeConnected[p] THEN Smaller(own, toMake)
                       ELSE Smaller(Smaller(outgoing, pregame + unconfirmed), bound)
    <3>1. CASE spokeConnected[p]
      BY Zenon, <3>1 DEF FlagsRoom
    <3>2. CASE ~spokeConnected[p]
      BY Zenon, <3>2 DEF FlagsRoom
    <3> QED BY <3>1, <3>2
  <2>3. \A a, b \in Int : Smaller(a, b) \in Int /\ Smaller(a, b) <= b
    BY DEF Smaller
  <2>4. Horizon - outgoingWriteTick[p] = bound
    OBVIOUS
  <2> HIDE DEF outgoing, unconfirmed, pregame, own, toMake, bound
  <2>5. Smaller(own, toMake) \in Int /\ Smaller(outgoing, pregame + unconfirmed) \in Int
    BY <2>1, <2>3
  <2>6. /\ Smaller(Smaller(outgoing, pregame + unconfirmed), bound) \in Int
        /\ Smaller(Smaller(outgoing, pregame + unconfirmed), bound) <= bound
    BY <2>1, <2>3, <2>5
  <2> QED BY <2>2, <2>4, <2>5, <2>6
<1>2. FlagsProvided(p) \in Nat /\ (FlagsProvided(p) = 0 \/ FlagsProvided(p) <= FlagsRoom(p))
  BY <1>1, SpokeNumbers DEF FlagsProvided, Smaller, Larger
<1>3. StillOutstanding(p) \in Int
  BY <1>2, SpokeNumbers DEF StillOutstanding
<1> QED BY <1>1, <1>2, <1>3, SpokeNumbers

LEMMA FilledIsSequence ==
  ASSUME NEW queue, NEW tick \in Int, IsSequence(queue)
  PROVE  IsSequence(FilledWithNetDead(queue, tick))
<1> DEFINE n == Larger(tick - StartingTick - Len(queue), 0)
           filling == [k \in 1 .. n |-> NetDeadFlags]
<1>1. n \in Nat
  BY SequenceLength, Constants DEF Larger
<1>2. filling = [k \in 1 .. n |-> filling[k]]
  OBVIOUS
<1> HIDE DEF n, filling
<1>3. IsSequence(filling)
  BY <1>1, <1>2, Listed
<1>4. IsSequence(queue \o filling)
  BY <1>3, Concatenated
<1> QED BY <1>4 DEF FilledWithNetDead, filling, n

\* Action queues stay sequences when p appends to its own.
LEMMA QueuesStay ==
  ASSUME SpokesSound, NEW p \in Players, NEW queues,
         gameFlags' = [gameFlags EXCEPT ![p] = [q \in Players |-> queues[q]]],
         \A q \in Players : IsSequence(queues[q])
  PROVE  /\ gameFlags' = [r \in Players |-> [q \in Players |-> gameFlags'[r][q]]]
         /\ \A r, q \in Players : IsSequence(gameFlags'[r][q])
<1>1. /\ gameFlags = [r \in Players |-> [q \in Players |-> gameFlags[r][q]]]
      /\ \A r, q \in Players : IsSequence(gameFlags[r][q])
  BY DEF SpokesSound
<1>2. \A r \in Players : gameFlags'[r] = IF r = p THEN [q \in Players |-> queues[q]] ELSE gameFlags[r]
  BY <1>1
<1>3. DOMAIN gameFlags' = Players /\ gameFlags' = [r \in Players |-> gameFlags'[r]]
  BY <1>1
<1>4. \A r \in Players : gameFlags'[r] = [q \in Players |-> gameFlags'[r][q]]
  BY <1>1, <1>2
<1>5. \A r, q \in Players : IsSequence(gameFlags'[r][q])
  BY <1>1, <1>2
<1> QED BY <1>3, <1>4, <1>5

LEMMA TickKeepsSound ==
  ASSUME SpokesSound, NEW p \in Players, SpokeTick(p), UNCHANGED hubVars
  PROVE  SpokesSound'
<1>1. UNCHANGED <<outgoingReadTick, unconfirmedReadTick, stillConnected, smallestUnreceivedTick,
                  gameTicks, requestedAdjustment, connected, flagsWriteTick, smallestUnsentTick>>
  BY DEF SpokeTick, viewVars, hubVars, playerVars, queueVars, sendVars
<1>2. outstandingAdjustment' \in [Players -> Int]
  <2>1. outstandingAdjustment' = [outstandingAdjustment EXCEPT ![p] = StillOutstanding(p)]
    BY DEF SpokeTick
  <2> QED BY <2>1, FlagsFit DEF SpokesSound
<1>3. CASE ConnectedTick(p)
  <2> DEFINE write == outgoingWriteTick[p] + FlagsProvided(p)
  <2>1. /\ outgoingWriteTick' = [outgoingWriteTick EXCEPT ![p] = write]
        /\ unconfirmedWriteTick' = [unconfirmedWriteTick EXCEPT ![p] =
             @ + Larger(write - Larger(outgoingWriteTick[p], StartingTick), 0)]
        /\ UNCHANGED <<smallestUnconfirmedTick, gameFlags>>
    BY <1>3 DEF ConnectedTick
  <2>2. write \in FirstTick .. Horizon /\ outgoingWriteTick[p] <= write
    <3>1. FlagsProvided(p) \in Nat /\ outgoingWriteTick[p] + FlagsProvided(p) <= Horizon
      BY <1>3, FlagsFit DEF ConnectedTick
    <3> QED BY <3>1, SpokeNumbers, Constants
  <2> HIDE DEF write
  <2>3. Larger(write - Larger(outgoingWriteTick[p], StartingTick), 0) \in Int
    BY <2>2, SpokeNumbers, Constants DEF Larger
  <2>4. unconfirmedWriteTick' \in [Players -> Int]
    <3>1. unconfirmedWriteTick[p] \in Int /\ unconfirmedWriteTick \in [Players -> Int]
      BY DEF SpokesSound
    <3>2. \A n \in Int : unconfirmedWriteTick[p] + n \in Int
      BY <3>1
    <3> QED BY <2>1, <2>3, <3>1, <3>2
  <2>5. outgoingWriteTick' \in [Players -> FirstTick .. Horizon]
        /\ \A r \in Players : outgoingReadTick[r] <= outgoingWriteTick'[r]
    <3>1. /\ outgoingWriteTick \in [Players -> FirstTick .. Horizon]
          /\ \A r \in Players : outgoingReadTick[r] <= outgoingWriteTick[r] /\ outgoingReadTick[r] \in Int
      BY Constants DEF SpokesSound
    <3> QED BY <2>1, <2>2, <3>1, Constants
  <2> QED BY <1>1, <1>2, <2>1, <2>4, <2>5 DEF SpokesSound
<1>4. CASE CutOffTick(p)
  <2> DEFINE news == [k \in 1 .. FlagsProvided(p) |-> AloneFlags]
             own == gameFlags[p][p] \o news
             queues == [q \in Players |-> IF q = p THEN own \o Unconfirmed(p)
                              ELSE IF q \in Zombies THEN gameFlags[p][q]
                              ELSE FilledWithNetDead(gameFlags[p][q], StartingTick + Len(own))]
  <2>1. /\ gameFlags' = [gameFlags EXCEPT ![p] = queues]
        /\ smallestUnconfirmedTick' = [smallestUnconfirmedTick EXCEPT ![p] =
                                       Larger(@, unconfirmedWriteTick[p])]
        /\ UNCHANGED <<outgoingWriteTick, unconfirmedWriteTick>>
    BY <1>4 DEF CutOffTick
  <2>2. IsSequence(own)
    <3>1. FlagsProvided(p) \in Nat /\ news = [k \in 1 .. FlagsProvided(p) |-> news[k]]
      BY FlagsFit
    <3>2. IsSequence(gameFlags[p][p])
      BY SpokeNumbers
    <3> HIDE DEF news
    <3> QED BY <3>1, <3>2, Listed, Concatenated
  <2> HIDE DEF own
  <2>3. \A q \in Players : IsSequence(queues[q])
    <3>1. IsSequence(own \o Unconfirmed(p)) /\ StartingTick + Len(own) \in Int
      BY <2>2, SpokeNumbers, SequenceLength, Concatenated
    <3>2. \A q \in Players : IsSequence(gameFlags[p][q])
      BY SpokeNumbers
    <3>3. \A q \in Players : IsSequence(FilledWithNetDead(gameFlags[p][q], StartingTick + Len(own)))
      BY <3>1, <3>2, FilledIsSequence
    <3> QED BY <3>1, <3>2, <3>3
  <2>4. queues = [q \in Players |-> queues[q]]
    OBVIOUS
  <2> HIDE DEF queues
  <2>5. /\ gameFlags' = [r \in Players |-> [q \in Players |-> gameFlags'[r][q]]]
        /\ \A r, q \in Players : IsSequence(gameFlags'[r][q])
    BY <2>1, <2>3, <2>4, QueuesStay
  <2>6. smallestUnconfirmedTick' \in [Players -> Int]
    BY <2>1 DEF SpokesSound, Larger
  <2> QED BY <1>1, <1>2, <2>1, <2>5, <2>6 DEF SpokesSound
<1> QED BY <1>3, <1>4 DEF SpokeTick

LEMMA OtherSpokeStepsKeepSound ==
  ASSUME SpokesSound, NEW p \in Players, UNCHANGED hubVars,
         SpokeGivesUp(p) \/ ForgetConfirmed(p) \/ GameAdvances(p) \/ SpokeCleanup(p)
  PROVE  SpokesSound' /\ UNCHANGED <<outgoingReadTick, stillConnected>>
<1>1. UNCHANGED <<outgoingReadTick, outgoingWriteTick, unconfirmedWriteTick, stillConnected,
                  smallestUnconfirmedTick, smallestUnreceivedTick, gameFlags,
                  requestedAdjustment, outstandingAdjustment,
                  connected, flagsWriteTick, smallestUnsentTick>>
  BY DEF SpokeGivesUp, ForgetConfirmed, GameAdvances, SpokeCleanup, spokeQueueVars, viewVars,
         receivedVars, timingVars, hubVars, playerVars, queueVars, sendVars
<1>2. unconfirmedReadTick' \in [Players -> Int]
  <2>1. \/ UNCHANGED unconfirmedReadTick
        \/ unconfirmedReadTick' = [unconfirmedReadTick EXCEPT ![p] =
                               Smaller(smallestUnconfirmedTick[p], unconfirmedWriteTick[p])]
    BY DEF SpokeGivesUp, ForgetConfirmed, GameAdvances, SpokeCleanup, spokeQueueVars
  <2> QED BY <2>1 DEF SpokesSound, Smaller
<1>3. gameTicks' \in [Players -> Nat]
  <2>1. UNCHANGED gameTicks \/ gameTicks' = [gameTicks EXCEPT ![p] = @ + 1]
    BY DEF SpokeGivesUp, ForgetConfirmed, GameAdvances, SpokeCleanup
  <2> QED BY <2>1 DEF SpokesSound
<1> QED BY <1>1, <1>2, <1>3 DEF SpokesSound

-----------------------------------------------------------------------------
(* What a spoke takes from a frame.                                          *)

\* Numbers given to the first n players have a bound.
LEMMA Bounded ==
  ASSUME NEW n \in Nat, NEW g, \A i \in 0 .. n - 1 : g[i] \in Int
  PROVE  \E b \in Int : \A i \in 0 .. n - 1 : g[i] <= b
<1> DEFINE Has(m) == \E b \in Int : \A i \in 0 .. m - 1 : g[i] <= b
           T == {m \in Nat : m <= n /\ ~Has(m)}
<1>1. SUFFICES ASSUME ~Has(n) PROVE FALSE
  OBVIOUS
<1>2. n \in T
  BY <1>1
<1>3. PICK m \in T : \A k \in T : m <= k
  BY <1>2, LeastNatural
<1>4. m # 0
  <2>1. \A i \in 0 .. 0 - 1 : g[i] <= 0
    OBVIOUS
  <2>2. \E b \in Int : \A i \in 0 .. 0 - 1 : g[i] <= b
    <3> WITNESS 0 \in Int
    <3> QED BY <2>1
  <2>3. Has(0)
    BY <2>2
  <2> QED BY <2>3, <1>3
<1>5. m - 1 \in Nat /\ m - 1 <= n /\ Has(m - 1)
  <2>1. m \in Nat /\ m <= n
    BY <1>3
  <2>2. m - 1 \in Nat /\ m - 1 <= n /\ ~ (m <= m - 1)
    BY <1>4, <2>1
  <2>3. m - 1 \notin T
    <3> HIDE DEF T
    <3> QED BY <1>3, <2>2
  <2> QED BY <2>2, <2>3
<1>6. PICK b \in Int : \A i \in 0 .. (m - 1) - 1 : g[i] <= b
  BY <1>5
<1>7. g[m - 1] \in Int
  BY <1>3, <1>4
<1>8. \E c \in Int : b <= c /\ g[m - 1] <= c
  BY <1>6, <1>7
<1>9. Has(m)
  <2>1. PICK c \in Int : b <= c /\ g[m - 1] <= c
    BY <1>8
  <2>2. ASSUME NEW i \in 0 .. m - 1 PROVE g[i] <= c
    <3>1. CASE i = m - 1
      BY <2>1, <3>1
    <3>2. CASE i # m - 1
      <4>1. i \in 0 .. (m - 1) - 1 /\ g[i] \in Int
        BY <1>3, <3>2
      <4> QED BY <1>6, <2>1, <4>1
    <3> QED BY <3>1, <3>2
  <2> QED BY <2>1, <2>2
<1> QED BY <1>3, <1>9

\* A non-empty set of integers with a lower bound has a least element.
LEMMA LeastInteger ==
  ASSUME NEW S \in SUBSET Int, S # {}, NEW b \in Int, \A s \in S : b <= s
  PROVE  \E s \in S : \A other \in S : s <= other
<1> DEFINE T == {n \in Nat : b + n \in S}
<1>1. PICK s \in S : TRUE
  OBVIOUS
<1>2. s - b \in T
  BY <1>1
<1>3. PICK n \in T : \A m \in T : n <= m
  BY <1>2, LeastNatural
<1>4. ASSUME NEW other \in S PROVE b + n <= other
  <2>1. other - b \in T
    OBVIOUS
  <2> QED BY <2>1, <1>3
<1> QED BY <1>3, <1>4

\* One with an upper bound has a greatest.
LEMMA GreatestInteger ==
  ASSUME NEW S \in SUBSET Int, S # {}, NEW b \in Int, \A s \in S : s <= b
  PROVE  \E s \in S : \A other \in S : other <= s
<1> DEFINE T == {n \in Nat : b - n \in S}
<1>1. PICK s \in S : TRUE
  OBVIOUS
<1>2. b - s \in T
  BY <1>1
<1>3. PICK n \in T : \A m \in T : n <= m
  BY <1>2, LeastNatural
<1>4. ASSUME NEW other \in S PROVE other <= b - n
  <2>1. b - other \in T
    OBVIOUS
  <2>2. n \in Int /\ other \in Int
    BY <1>3
  <2> HIDE DEF T
  <2>3. n <= b - other
    BY <2>1, <1>3
  <2> QED BY <2>2, <2>3
<1> QED BY <1>3, <1>4

\* The room in p's action queues is that of one of them.
LEMMA QueueSpaceOfSomebody ==
  ASSUME SpokesSound, NEW p \in Players
  PROVE  /\ QueueSpace(p) \in Int
         /\ \E q \in Players \ Zombies : QueueSpace(p) = ActionQueueSize - (Len(gameFlags[p][q]) - gameTicks[p])
<1> DEFINE g == [q \in Players |-> Len(gameFlags[p][q])]
           room(q) == ActionQueueSize - (Len(gameFlags[p][q]) - gameTicks[p])
           space == {room(q) : q \in Players \ Zombies}
<1>1. NumPlayers \in Nat /\ Players = 0 .. NumPlayers - 1
  BY Constants DEF Players
<1>2. \A q \in Players : g[q] = Len(gameFlags[p][q]) /\ g[q] \in Int
  BY SpokeNumbers
<1>3. PICK b \in Int : \A q \in Players : g[q] <= b
  <2> HIDE DEF g
  <2>1. NumPlayers \in Nat /\ \A i \in 0 .. NumPlayers - 1 : g[i] \in Int
    BY <1>1, <1>2
  <2>2. \E b \in Int : \A i \in 0 .. NumPlayers - 1 : g[i] <= b
    BY <2>1, Bounded, Zenon
  <2> QED BY <1>1, <2>2
<1>4. gameTicks[p] \in Int /\ ActionQueueSize \in Int
  BY SpokeNumbers
<1>5. ASSUME NEW q \in Players
      PROVE  room(q) \in Int /\ ActionQueueSize + gameTicks[p] - b <= room(q)
  <2>1. Len(gameFlags[p][q]) \in Int /\ Len(gameFlags[p][q]) <= b
    BY <1>2, <1>3
  <2> QED BY <1>4, <2>1
<1>6. space \in SUBSET Int /\ space # {} /\ \A s \in space : ActionQueueSize + gameTicks[p] - b <= s
  <2> HIDE DEF room
  <2> QED BY <1>5 DEF SpokesSound
<1>7. ActionQueueSize + gameTicks[p] - b \in Int
  BY <1>4
<1>8. QueueSpace(p) = CHOOSE s \in space : \A other \in space : s <= other
  BY DEF QueueSpace
<1> HIDE DEF space
<1>9. \E s \in space : \A other \in space : s <= other
  BY <1>6, <1>7, LeastInteger
<1>10. QueueSpace(p) \in space
  BY <1>8, <1>9
<1> QED BY <1>6, <1>10 DEF space

LEMMA QueueSpaceIsNumber == ASSUME SpokesSound, NEW p \in Players PROVE QueueSpace(p) \in Int
BY QueueSpaceOfSomebody

\* What p's game queues and ticks come to.
ReceivedSound ==
  /\ gameFlags' = [r \in Players |-> [q \in Players |-> gameFlags'[r][q]]]
  /\ \A r, q \in Players : IsSequence(gameFlags'[r][q])
  /\ smallestUnconfirmedTick' \in [Players -> Int]
  /\ smallestUnreceivedTick' \in [Players -> FirstTick .. Horizon]
  /\ \A r \in Players : smallestUnreceivedTick'[r] <= smallestUnsentTick

LEMMA NothingReceived ==
  ASSUME SpokesSound, UNCHANGED <<gameFlags, smallestUnconfirmedTick, smallestUnreceivedTick>>
  PROVE  ReceivedSound
BY DEF SpokesSound, ReceivedSound

\* A tick of p's is received: it has been sent.
LEMMA TickReceived ==
  ASSUME SpokesSound, NEW p \in Players, NEW tick \in FirstTick .. Horizon, tick <= smallestUnsentTick,
         smallestUnreceivedTick' = [smallestUnreceivedTick EXCEPT ![p] = tick]
  PROVE  /\ smallestUnreceivedTick' \in [Players -> FirstTick .. Horizon]
         /\ \A r \in Players : smallestUnreceivedTick'[r] <= smallestUnsentTick
BY DEF SpokesSound

\* The special case of a packet without flags: a spoke that finds itself alone skips only
\* ticks that have been sent.
LEMMA NoFlagsReceived ==
  ASSUME GameInvariant, NEW p \in Players, NEW f, NEW acked \in FirstTick .. Horizon,
         WeAreAlone(p, f, acked) => acked <= smallestUnsentTick,
         ReceiveNoFlags(p, f, acked)
  PROVE  ReceivedSound
<1> USE DEF GameInvariant
<1>1. CASE ~WeAreAlone(p, f, acked)
  BY <1>1, NothingReceived DEF ReceiveNoFlags
<1>2. CASE WeAreAlone(p, f, acked)
  <2> DEFINE queues == [q \in Players |-> IF q = p THEN gameFlags[p][q] \o Unconfirmed(p)
                                  ELSE IF q \in Zombies THEN gameFlags[p][q]
                                  ELSE FilledWithNetDead(gameFlags[p][q], acked)]
  <2>1. /\ gameFlags' = [gameFlags EXCEPT ![p] = queues]
        /\ smallestUnconfirmedTick' = [smallestUnconfirmedTick EXCEPT ![p] =
                                           Larger(@, unconfirmedWriteTick[p])]
        /\ smallestUnreceivedTick' = [smallestUnreceivedTick EXCEPT ![p] = acked]
    BY <1>2 DEF ReceiveNoFlags
  <2>2. \A q \in Players : IsSequence(queues[q])
    <3>1. acked \in Int /\ \A q \in Players : IsSequence(gameFlags[p][q])
      BY SpokeNumbers, Constants
    <3>2. IsSequence(gameFlags[p][p] \o Unconfirmed(p))
      BY SpokeNumbers, Concatenated
    <3>3. \A q \in Players : IsSequence(FilledWithNetDead(gameFlags[p][q], acked))
      BY <3>1, FilledIsSequence
    <3> QED BY <3>1, <3>2, <3>3
  <2>3. queues = [q \in Players |-> queues[q]]
    OBVIOUS
  <2> HIDE DEF queues
  <2>4. /\ gameFlags' = [r \in Players |-> [q \in Players |-> gameFlags'[r][q]]]
        /\ \A r, q \in Players : IsSequence(gameFlags'[r][q])
    BY <2>1, <2>2, <2>3, QueuesStay
  <2>5. smallestUnconfirmedTick' \in [Players -> Int]
    BY <2>1 DEF SpokesSound, Larger
  <2> QED BY <1>2, <2>1, <2>4, <2>5, TickReceived DEF ReceivedSound
<1> QED BY <1>1, <1>2

\* The loop over the ticks of a packet: only ticks that have been sent are received.
LEMMA FlagsReceived ==
  ASSUME GameInvariant, NEW p \in Players, NEW f, NEW start, NEW stop \in Int,
         stop <= smallestUnsentTick, ReceiveFlags(p, f, start, stop)
  PROVE  ReceivedSound
<1> USE DEF GameInvariant
<1> DEFINE first == Larger(smallestUnreceivedTick[p], StartingTick)
           taken == Larger(stop - first, 0)
           new(q) == [k \in 1 .. taken |-> TakenFlags(p, f, q, first + k - 1)]
           queues == [q \in Players |-> IF q \in Zombies THEN gameFlags[p][q]
                                        ELSE gameFlags[p][q] \o new(q)]
<1>1. /\ smallestUnreceivedTick[p] \in Int /\ FirstTick <= smallestUnreceivedTick[p]
      /\ smallestUnreceivedTick[p] <= smallestUnsentTick /\ smallestUnsentTick \in Int
      /\ smallestUnsentTick <= Horizon
  BY Constants DEF SpokesSound, HubInvariant, TypeOK
<1>2. taken \in Nat
  BY <1>1, Constants DEF Larger
<1>3. \/ UNCHANGED <<gameFlags, smallestUnconfirmedTick, smallestUnreceivedTick>>
      \/ /\ gameFlags' = [gameFlags EXCEPT ![p] = queues]
         /\ smallestUnconfirmedTick' = [smallestUnconfirmedTick EXCEPT ![p] = @ + taken]
         /\ smallestUnreceivedTick' = [smallestUnreceivedTick EXCEPT ![p] = Larger(@, stop)]
  <2>1. IF FailedAsserts(p, f, start, stop) # {}
        THEN UNCHANGED receivedVars /\ UNCHANGED smallestUnconfirmedTick
        ELSE /\ gameFlags' = [gameFlags EXCEPT ![p] = queues]
             /\ smallestUnconfirmedTick' = [smallestUnconfirmedTick EXCEPT ![p] = @ + taken]
             /\ smallestUnreceivedTick' = [smallestUnreceivedTick EXCEPT ![p] = Larger(@, stop)]
    BY DEF ReceiveFlags
  <2> HIDE DEF queues, taken
  <2> QED BY <2>1 DEF receivedVars
<1>4. CASE UNCHANGED <<gameFlags, smallestUnconfirmedTick, smallestUnreceivedTick>>
  BY <1>4, NothingReceived
<1>5. CASE ~ UNCHANGED <<gameFlags, smallestUnconfirmedTick, smallestUnreceivedTick>>
  <2>1. \A q \in Players : IsSequence(gameFlags[p][q])
    BY SpokeNumbers
  <2>2. ASSUME NEW q \in Players PROVE IsSequence(new(q))
    <3>1. new(q) = [k \in 1 .. taken |-> new(q)[k]]
      OBVIOUS
    <3> HIDE DEF new, taken
    <3> QED BY <1>2, <3>1, Listed
  <2>3. \A q \in Players : IsSequence(queues[q])
    <3> HIDE DEF new
    <3> QED BY <2>1, <2>2, Concatenated
  <2>4. queues = [q \in Players |-> queues[q]]
    OBVIOUS
  <2> HIDE DEF queues, taken
  <2>5. /\ gameFlags' = [r \in Players |-> [q \in Players |-> gameFlags'[r][q]]]
        /\ \A r, q \in Players : IsSequence(gameFlags'[r][q])
    BY <1>3, <1>5, <2>3, <2>4, QueuesStay
  <2>6. smallestUnconfirmedTick' \in [Players -> Int]
    <3>1. smallestUnconfirmedTick[p] + taken \in Int /\ smallestUnconfirmedTick \in [Players -> Int]
      BY <1>2 DEF SpokesSound
    <3> QED BY <1>3, <1>5, <3>1
  <2>7. Larger(smallestUnreceivedTick[p], stop) \in FirstTick .. Horizon
        /\ Larger(smallestUnreceivedTick[p], stop) <= smallestUnsentTick
    BY <1>1, Constants DEF Larger
  <2> QED BY <1>3, <1>5, <2>5, <2>6, <2>7, TickReceived DEF ReceivedSound
<1> QED BY <1>4, <1>5

\* The ticks of a frame that has been sent to p.
LEMMA TicksReceived ==
  ASSUME GameInvariant, NEW p \in Players, NEW f, FrameToSpokeSound(p, f),
         NEW acked \in FirstTick .. Horizon,
         WeAreAlone(p, f, acked) => acked <= smallestUnsentTick,
         ReceiveTicks(p, f, acked)
  PROVE  ReceivedSound
<1> DEFINE start == CHOOSE t \in DOMAIN f.flags : \A u \in DOMAIN f.flags : t <= u
           last  == CHOOSE t \in DOMAIN f.flags : \A u \in DOMAIN f.flags : u <= t
           stop  == Smaller(last + 1, smallestUnreceivedTick[p] + QueueSpace(p))
<1>1. CASE f.flags = << >>
  BY <1>1, NoFlagsReceived DEF ReceiveTicks
<1>2. CASE f.flags # << >> /\ UNCHANGED <<receivedVars, smallestUnconfirmedTick>>
  BY <1>2, NothingReceived DEF receivedVars, GameInvariant
<1>3. CASE f.flags # << >> /\ ReceiveFlags(p, f, start, stop)
  <2>1. smallestUnsentTick \in Int /\ smallestUnreceivedTick[p] \in Int
    BY Constants DEF GameInvariant, SpokesSound, HubInvariant, TypeOK
  <2>2. DOMAIN f.flags # {}
    <3>1. f.flags = [t \in DOMAIN f.flags |-> f.flags[t]]
      BY DEF FrameToSpokeSound
    <3>2. << >> = [t \in DOMAIN << >> |-> << >>[t]]
      OBVIOUS
    <3>3. DOMAIN << >> = {}
      BY EmptySequence
    <3> QED BY <1>3, <3>1, <3>2, <3>3
  <2>3. /\ DOMAIN f.flags \in SUBSET Int
        /\ \A t \in DOMAIN f.flags : t <= smallestUnsentTick - 1
    BY <2>1, Constants DEF FrameToSpokeSound
  <2>4. last \in DOMAIN f.flags
    <3>1. smallestUnsentTick - 1 \in Int
      BY <2>1
    <3>2. \E t \in DOMAIN f.flags : \A u \in DOMAIN f.flags : u <= t
      BY <2>2, <2>3, <3>1, GreatestInteger
    <3> QED BY <3>2
  <2>5. last \in Int /\ last <= smallestUnsentTick - 1
    BY <2>3, <2>4
  <2>6. QueueSpace(p) \in Int
    BY QueueSpaceIsNumber DEF GameInvariant
  <2> HIDE DEF last, start
  <2>7. stop \in Int /\ stop <= smallestUnsentTick
    BY <2>1, <2>5, <2>6 DEF Smaller
  <2> HIDE DEF stop
  <2> QED BY <1>3, <2>7, FlagsReceived
<1> QED BY <1>1, <1>2, <1>3 DEF ReceiveTicks

\* What p has of a frame that is on its wire, and what it then knows of the others.
LEMMA ReceivesKeepsSound ==
  ASSUME GameInvariant, UNCHANGED hubVars, NEW p \in Players, NEW k \in DOMAIN toSpoke[p],
         SpokeReceives(p, toSpoke[p][k])
  PROVE  /\ SpokesSound'
         /\ \A q \in Players : q # p => /\ outgoingReadTick'[q] = outgoingReadTick[q]
                                        /\ stillConnected'[q] = stillConnected[q]
         /\ \A q \in stillConnected[p] : q \in stillConnected'[p]
                                          \/ \E death \in toSpoke[p][k].deaths : death[1] = q
         /\ ToldAlone(p) => outgoingReadTick'[p] <= smallestUnsentTick
<1> DEFINE f == toSpoke[p][k]
           acked == Larger(outgoingReadTick[p], Smaller(f.ack, outgoingWriteTick[p]))
           early == f.ack > outgoingWriteTick[p]
<1>1. FrameToSpokeSound(p, f)
  BY DEF GameInvariant, WiresSound
<1>2. /\ f.ack \in Int /\ outgoingReadTick[p] \in Int /\ flagsWriteTick[p] \in Int
      /\ f.ack <= flagsWriteTick[p] /\ outgoingReadTick[p] <= flagsWriteTick[p]
      /\ outgoingWriteTick[p] \in Int /\ outgoingReadTick[p] <= outgoingWriteTick[p]
      /\ FirstTick <= outgoingReadTick[p] /\ outgoingWriteTick[p] <= Horizon
      /\ smallestUnsentTick \in Int
  BY <1>1, Constants DEF FrameToSpokeSound, GameInvariant, SpokesSound, HubInvariant, TypeOK
<1>3. /\ acked \in FirstTick .. Horizon /\ outgoingReadTick[p] <= acked
      /\ acked <= outgoingWriteTick[p] /\ acked <= flagsWriteTick[p]
      /\ f.ack <= smallestUnsentTick /\ outgoingReadTick[p] <= smallestUnsentTick =>
           acked <= smallestUnsentTick
  <2> HIDE DEF f
  <2> QED BY <1>2, Constants DEF Larger, Smaller
<1>4. ToldAlone(p) => acked <= smallestUnsentTick /\ outgoingReadTick[p] <= smallestUnsentTick
  BY <1>3 DEF GameInvariant, AloneIsSent
<1>5. UNCHANGED <<outgoingWriteTick, unconfirmedReadTick, unconfirmedWriteTick, gameTicks,
                  connected, flagsWriteTick, smallestUnsentTick>>
  BY DEF SpokeReceives, hubVars, playerVars, queueVars, sendVars
<1>6. SpokesSound
  BY DEF GameInvariant
<1>7. CASE early /\ ~f.reflects
  <2>1. UNCHANGED <<outgoingReadTick, viewVars, timingVars, receivedVars, smallestUnconfirmedTick>>
    BY <1>7 DEF SpokeReceives
  <2> QED BY <1>4, <1>5, <1>6, <2>1 DEF SpokesSound, viewVars, timingVars, receivedVars
<1>8. CASE ~ (early /\ ~f.reflects)
  <2>1. /\ outgoingReadTick' = [outgoingReadTick EXCEPT ![p] = acked]
        /\ stillConnected' = [stillConnected EXCEPT ![p] = StillConnected(p, f)]
        /\ requestedAdjustment' = [requestedAdjustment EXCEPT ![p] = f.adjustment]
        /\ outstandingAdjustment' = [outstandingAdjustment EXCEPT ![p] =
             IF f.adjustment \notin {0, requestedAdjustment[p]} THEN f.adjustment ELSE @]
        /\ ReceiveTicks(p, f, acked)
    BY <1>8 DEF SpokeReceives
  <2> HIDE DEF f, acked
  <2>2. WeAreAlone(p, f, acked) => acked <= smallestUnsentTick
    <3>1. WeAreAlone(p, f, acked) => ToldAlone(p)
      BY DEF WeAreAlone, ToldAlone, StillConnected, f
    <3> QED BY <1>4, <3>1
  <2>3. ReceivedSound
    BY <1>1, <1>3, <2>1, <2>2, TicksReceived
  <2>4. /\ requestedAdjustment' \in [Players -> Int] /\ outstandingAdjustment' \in [Players -> Int]
    BY <1>1, <1>6, <2>1 DEF FrameToSpokeSound, SpokesSound
  <2>5. /\ outgoingReadTick' \in [Players -> FirstTick .. Horizon]
        /\ \A r \in Players : /\ outgoingReadTick'[r] <= outgoingWriteTick[r]
                              /\ outgoingReadTick'[r] <= flagsWriteTick[r]
    BY <1>3, <1>6, <2>1 DEF SpokesSound
  <2>6. /\ stillConnected' = [r \in Players |-> stillConnected'[r]]
        /\ \A r \in Players : connected \subseteq stillConnected'[r]
    <3>1. connected \subseteq StillConnected(p, f)
      BY <1>1, <1>6 DEF StillConnected, FrameToSpokeSound, SpokesSound
    <3> QED BY <1>6, <2>1, <3>1 DEF SpokesSound
  <2>7. SpokesSound'
    BY <1>5, <1>6, <2>3, <2>4, <2>5, <2>6 DEF SpokesSound, ReceivedSound
  <2>8. /\ stillConnected'[p] = StillConnected(p, f) /\ outgoingReadTick'[p] = acked
        /\ \A q \in Players : q # p => /\ outgoingReadTick'[q] = outgoingReadTick[q]
                                       /\ stillConnected'[q] = stillConnected[q]
    BY <1>6, <2>1 DEF SpokesSound
  <2> QED BY <1>4, <2>7, <2>8 DEF StillConnected, f
<1> QED BY <1>7, <1>8

-----------------------------------------------------------------------------
(* A step of a spoke keeps everything sound.                                 *)

LEMMA HubStays ==
  ASSUME ~Standalone, HubInvariant, HubBooks, UNCHANGED hubVars
  PROVE  HubInvariant' /\ HubBooks' /\ HubAdvances /\ ~HubSends
<1>1. HubInvariant'
  BY StepInvariant
<1>2. UNCHANGED <<connected, netDeadTick, flagsWriteTick, smallestUnsentTick, scan, sinceSent>>
  BY DEF hubVars, playerVars, queueVars, sendVars, tickVars
<1>3. HubBooks'
  BY <1>2 DEF HubBooks
<1>4. ~HubSends
  BY <1>2, Constants DEF HubSends, NONE
<1>5. ~ (scan = NumPlayers /\ scan' = NONE)
  BY <1>2, Constants DEF NONE
<1> QED BY <1>1, <1>2, <1>3, <1>4, <1>5, QuietAdvances

\* What a spoke may put on its wire.
SpokeSent(p) ==
  \/ UNCHANGED toHub
  \/ \E f : FrameToHubSound(p, f) /\ toHub' = [toHub EXCEPT ![p] = Sent(@, f)]

LEMMA SpokeStepKeeps ==
  ASSUME ~Standalone, GameInvariant, UNCHANGED <<hubVars, toSpoke, outgoingReadTick, stillConnected>>,
         SpokesSound', NEW p \in Players, SpokeSent(p)
  PROVE  GameInvariant'
<1>1. HubInvariant' /\ HubBooks'
  BY HubStays DEF GameInvariant
<1>2. UNCHANGED <<connected, flagsWriteTick, smallestUnsentTick>>
  BY DEF hubVars, playerVars, queueVars, sendVars
<1>3. ASSUME NEW r \in Players
      PROVE  /\ IsSequence(toHub'[r])
             /\ \A k \in DOMAIN toHub'[r] : FrameToHubSound(r, toHub[r][k])'
  <2>1. IsSequence(toHub[r]) /\ \A k \in DOMAIN toHub[r] : FrameToHubSound(r, toHub[r][k])
    BY DEF GameInvariant, WiresSound
  <2>2. CASE toHub'[r] = toHub[r]
    BY <1>2, <2>1, <2>2 DEF FrameToHubSound
  <2>3. ASSUME NEW f, FrameToHubSound(r, f), toHub'[r] = Sent(toHub[r], f)
        PROVE  /\ IsSequence(toHub'[r])
               /\ \A k \in DOMAIN toHub'[r] : FrameToHubSound(r, toHub[r][k])'
    <3>1. /\ IsSequence(toHub'[r])
          /\ \A k \in DOMAIN toHub'[r] :
               \/ toHub'[r][k] = f
               \/ \E j \in DOMAIN toHub[r] : toHub'[r][k] = toHub[r][j]
      BY <2>1, <2>3, OneMoreSent
    <3>2. \A k \in DOMAIN toHub'[r] : FrameToHubSound(r, toHub'[r][k])
      BY <2>1, <2>3, <3>1
    <3> QED BY <1>2, <3>1, <3>2 DEF FrameToHubSound
  <2> QED BY <2>2, <2>3 DEF SpokeSent, GameInvariant, WiresSound
<1>4. WiresSound'
  <2>1. toHub' = [r \in Players |-> toHub'[r]]
    BY DEF SpokeSent, GameInvariant, WiresSound
  <2> QED BY <1>2, <1>3, <2>1 DEF WiresSound, GameInvariant, FrameToSpokeSound
<1>5. AloneIsSent'
  BY <1>2 DEF AloneIsSent, GameInvariant, ToldAlone
<1> QED BY <1>1, <1>4, <1>5 DEF GameInvariant

LEMMA SpokeReceiptKeeps ==
  ASSUME ~Standalone, GameInvariant, UNCHANGED <<hubVars, toHub>>, NEW p \in Players,
         \/ UNCHANGED spokeVars
         \/ \E k \in DOMAIN toSpoke[p] : SpokeReceives(p, toSpoke[p][k]),
         toSpoke' \in {toSpoke, [toSpoke EXCEPT ![p] = << >>]}
  PROVE  GameInvariant'
<1>1. HubInvariant' /\ HubBooks'
  BY HubStays DEF GameInvariant
<1>2. UNCHANGED <<connected, flagsWriteTick, smallestUnsentTick>>
  BY DEF hubVars, playerVars, queueVars, sendVars
<1>3. /\ toSpoke' = [r \in Players |-> toSpoke'[r]]
      /\ \A r \in Players : toSpoke'[r] \in {toSpoke[r], << >>}
  BY DEF GameInvariant, WiresSound
<1>4. WiresSound'
  <2>1. ASSUME NEW r \in Players
        PROVE  /\ IsSequence(toSpoke'[r])
               /\ \A k \in DOMAIN toSpoke'[r] : FrameToSpokeSound(r, toSpoke[r][k])'
    <3>1. CASE toSpoke'[r] = << >>
      BY <3>1, EmptySequence
    <3>2. CASE toSpoke'[r] = toSpoke[r]
      BY <1>2, <3>2 DEF GameInvariant, WiresSound, FrameToSpokeSound
    <3> QED BY <1>3, <3>1, <3>2
  <2> QED BY <1>2, <1>3, <2>1 DEF WiresSound, GameInvariant, FrameToHubSound
<1>5. /\ SpokesSound'
      /\ \A r \in Players : ToldAlone(r)' => ToldAlone(r)
      /\ \A r \in Players : ToldAlone(r) => outgoingReadTick'[r] <= smallestUnsentTick
  <2>1. CASE UNCHANGED spokeVars
    <3>1. SpokesSound'
      BY <1>2, <2>1 DEF GameInvariant, SpokesSound, spokeVars, spokeQueueVars, viewVars,
                        receivedVars, timingVars
    <3>2. UNCHANGED <<outgoingReadTick, stillConnected>>
      BY <2>1 DEF spokeVars, spokeQueueVars, viewVars
    <3>3. \A r \in Players : ToldAlone(r)' => ToldAlone(r)
      BY <1>3, <3>2, EmptySequence DEF ToldAlone
    <3> QED BY <3>1, <3>2, <3>3 DEF GameInvariant, AloneIsSent
  <2>2. ASSUME NEW k \in DOMAIN toSpoke[p], SpokeReceives(p, toSpoke[p][k])
        PROVE  /\ SpokesSound'
               /\ \A r \in Players : ToldAlone(r)' => ToldAlone(r)
               /\ \A r \in Players : ToldAlone(r) => outgoingReadTick'[r] <= smallestUnsentTick
    <3>1. /\ SpokesSound'
          /\ \A q \in Players : q # p => /\ outgoingReadTick'[q] = outgoingReadTick[q]
                                         /\ stillConnected'[q] = stillConnected[q]
          /\ \A q \in stillConnected[p] : q \in stillConnected'[p]
                                           \/ \E death \in toSpoke[p][k].deaths : death[1] = q
          /\ ToldAlone(p) => outgoingReadTick'[p] <= smallestUnsentTick
      BY <2>2, ReceivesKeepsSound
    <3>2. ASSUME NEW r \in Players, ToldAlone(r)' PROVE ToldAlone(r)
      <4>1. \A q \in Players \ {r} :
               \/ q \notin stillConnected'[r]
               \/ \E j \in DOMAIN toSpoke[r] : \E death \in toSpoke[r][j].deaths : death[1] = q
        BY <1>3, <3>2, EmptySequence DEF ToldAlone
      <4>2. CASE r = p
        BY <2>2, <3>1, <4>1, <4>2 DEF ToldAlone
      <4>3. CASE r # p
        BY <3>1, <4>1, <4>3 DEF ToldAlone
      <4> QED BY <4>2, <4>3
    <3>3. ASSUME NEW r \in Players, ToldAlone(r) PROVE outgoingReadTick'[r] <= smallestUnsentTick
      BY <3>1, <3>3 DEF GameInvariant, AloneIsSent
    <3> QED BY <3>1, <3>2, <3>3
  <2> QED BY <2>1, <2>2
<1>6. AloneIsSent'
  <2> SUFFICES ASSUME NEW r \in Players, ToldAlone(r)'
               PROVE  /\ outgoingReadTick'[r] <= smallestUnsentTick
                      /\ \A k \in DOMAIN toSpoke'[r] : toSpoke'[r][k].ack <= smallestUnsentTick
    BY <1>2 DEF AloneIsSent
  <2>1. ToldAlone(r)
    BY <1>5
  <2>2. \A k \in DOMAIN toSpoke[r] : toSpoke[r][k].ack <= smallestUnsentTick
    BY <2>1 DEF GameInvariant, AloneIsSent
  <2> QED BY <1>3, <1>5, <2>1, <2>2, EmptySequence
<1> QED BY <1>1, <1>4, <1>5, <1>6 DEF GameInvariant

-----------------------------------------------------------------------------
(* How the game begins, and what the hub takes part in.                      *)

LEMMA GameInitInvariant == ASSUME ~Standalone, GameInit PROVE GameInvariant
<1>1. Init /\ connected = Players \ Zombies /\ HubInvariant
  BY InitInvariant DEF GameInit
<1>2. /\ netDeadTick = [i \in Players |-> FirstTick - 1] /\ scan = NONE
      /\ flagsWriteTick = [i \in Players |-> FirstTick] /\ smallestUnsentTick = FirstTick
      /\ connected # {}
  BY <1>1 DEF Init
<1>3. HubBooks
  BY <1>1, <1>2 DEF HubBooks
<1>4. WiresSound
  BY EmptySequence DEF GameInit, WiresSound
<1>5. SpokesSound
  <2>1. SpokeInit(connected)
    BY DEF GameInit
  <2> USE DEF SpokeInit
  <2>2. /\ FirstTick \in FirstTick .. Horizon /\ FirstTick \in Int /\ FirstTick <= FirstTick
        /\ StartingTick \in Int
    BY Constants
  <2>3. /\ outgoingReadTick \in [Players -> FirstTick .. Horizon]
        /\ outgoingWriteTick \in [Players -> FirstTick .. Horizon]
        /\ smallestUnreceivedTick \in [Players -> FirstTick .. Horizon]
        /\ \A p \in Players : /\ outgoingReadTick[p] = FirstTick /\ outgoingWriteTick[p] = FirstTick
                              /\ smallestUnreceivedTick[p] = FirstTick
    BY <2>1, <2>2
  <2>4. /\ unconfirmedReadTick \in [Players -> Int] /\ unconfirmedWriteTick \in [Players -> Int]
        /\ smallestUnconfirmedTick \in [Players -> Int]
        /\ requestedAdjustment \in [Players -> Int] /\ outstandingAdjustment \in [Players -> Int]
        /\ gameTicks \in [Players -> Nat]
    BY <2>1, <2>2
  <2>5. /\ gameFlags = [p \in Players |-> [q \in Players |-> gameFlags[p][q]]]
        /\ \A p, q \in Players : gameFlags[p][q] = << >>
        /\ stillConnected = [p \in Players |-> stillConnected[p]]
        /\ \A p \in Players : stillConnected[p] = connected
    BY <2>1
  <2> QED BY <1>1, <1>2, <2>2, <2>3, <2>4, <2>5, EmptySequence DEF SpokesSound
<1>6. AloneIsSent
  <2>1. /\ outgoingReadTick = [p \in Players |-> FirstTick]
        /\ \A p \in Players : toSpoke[p] = << >>
    BY DEF GameInit, SpokeInit
  <2> QED BY <1>2, <2>1, EmptySequence, Constants DEF AloneIsSent
<1> QED BY <1>1, <1>3, <1>4, <1>5, <1>6 DEF GameInvariant

\* The hub's steps are those it is proved for.
LEMMA HubHandlesSoundFrames ==
  ASSUME ~Standalone, GameInvariant, NEW p \in Players, NEW f, FrameToHubSound(p, f), HubHandles(p, f)
  PROVE  Next /\ HubAdvances
<1>1. CASE ReceiveIdentification(p)
  BY <1>1, OtherHubStepsAdvance DEF GameInvariant, Next
<1>2. CASE f.type = "game data" /\ ReceiveGameData(p, f.ack, f.start, f.end)
  <2>1. /\ f.ack \in FirstTick .. Horizon /\ f.ack <= smallestUnsentTick
        /\ f.start \in FirstTick .. Horizon /\ f.end \in FirstTick .. Horizon /\ f.start <= f.end
    <3>1. smallestUnsentTick \in Int /\ smallestUnsentTick <= Horizon
      BY Constants DEF GameInvariant, HubInvariant, TypeOK
    <3>2. /\ f.ack \in FirstTick .. smallestUnsentTick
          /\ f.start \in FirstTick .. Horizon /\ f.end \in FirstTick .. Horizon /\ f.start <= f.end
      BY <1>2 DEF FrameToHubSound
    <3>3. FirstTick \in Int /\ Horizon \in Int
      BY Constants
    <3>4. \A n \in FirstTick .. smallestUnsentTick : n \in FirstTick .. Horizon /\ n <= smallestUnsentTick
      BY <3>1, <3>3
    <3> QED BY <3>2, <3>4
  <2>2. SpokeSends(p, f.ack, f.start, f.end)
    BY <1>2, <2>1 DEF SpokeSends
  <2>3. Next
    <3>1. \E q \in Players, ack, start, end \in FirstTick .. Horizon : SpokeSends(q, ack, start, end)
      BY <2>1, <2>2
    <3> QED BY <3>1 DEF Next
  <2>4. HubAdvances
    BY <1>2, <2>1, GameDataAdvances DEF GameInvariant
  <2> QED BY <2>3, <2>4
<1> QED BY <1>1, <1>2 DEF HubHandles

LEMMA HubStepInGame ==
  ASSUME GameInvariant, NEW ACTION Step, HubStep(Step), HubAdvances, OnlyTakenFromHub
  PROVE  GameInvariant'
<1> DEFINE Asks == IF HubSends THEN [connected' \ Local -> Adjustments \cup {0}] ELSE {<< >>}
<1>1. \E large : \E asks \in Asks : HubWires(large, asks)
  BY Zenon DEF HubStep
<1>2. PICK large : \E asks \in Asks : HubWires(large, asks)
  BY <1>1
<1>3. PICK asks \in Asks : HubWires(large, asks)
  BY <1>2
<1>4. \A i \in DOMAIN asks : asks[i] \in Int
  <2>1. CASE HubSends
    <3>1. asks \in [connected' \ Local -> Adjustments \cup {0}]
      BY <1>3, <2>1
    <3>2. DOMAIN asks = connected' \ Local /\ \A i \in connected' \ Local : asks[i] \in Adjustments \cup {0}
      BY <3>1
    <3>3. Adjustments \cup {0} \subseteq Int
      BY GameConstants
    <3> HIDE DEF Asks
    <3> QED BY <3>2, <3>3
  <2>2. CASE ~HubSends
    <3>1. asks = << >>
      BY <1>3, <2>2
    <3> QED BY <3>1
  <2> QED BY <2>1, <2>2
<1>5. UNCHANGED spokeVars
  BY DEF HubStep
<1> QED BY <1>3, <1>4, <1>5, HubStepKeeps

-----------------------------------------------------------------------------
(* The disjuncts of GameNext, one by one.                                    *)

LEMMA HubLeavesKeeps == ASSUME ~Standalone, GameInvariant, HubLeaves PROVE GameInvariant' /\ Next
<1>1. HubCleanupEnd \/ \E graceful \in BOOLEAN, t \in PostGameTicks : HubCleanup(graceful, t)
  BY DEF HubLeaves
<1>2. HubAdvances /\ ~HubSends
  BY <1>1, OtherHubStepsAdvance DEF GameInvariant
<1>3. UNCHANGED <<spokeVars, toHub, toSpoke>>
  BY DEF HubLeaves, wires
<1>4. HubWires({}, << >>)
  BY <1>2, <1>3 DEF HubWires
<1>5. OnlyTakenFromHub
  BY <1>3 DEF GameInvariant, WiresSound, OnlyTakenFromHub
<1>6. GameInvariant'
  BY <1>2, <1>3, <1>4, <1>5, HubStepKeeps
<1>7. Next
  BY <1>1 DEF Next
<1> QED BY <1>6, <1>7

LEMMA HubTicksKeeps == ASSUME ~Standalone, GameInvariant, HubTicks PROVE GameInvariant' /\ Next
<1>1. HubStep(HubTick) /\ UNCHANGED toHub
  BY DEF HubTicks
<1>2. HubTick
  BY <1>1 DEF HubStep
<1>3. OnlyTakenFromHub
  BY <1>1 DEF GameInvariant, WiresSound, OnlyTakenFromHub
<1>4. HubAdvances
  BY <1>2, TickAdvances DEF GameInvariant
<1>5. GameInvariant'
  BY <1>1, <1>3, <1>4, HubStepInGame
<1>6. Next
  BY <1>2 DEF Next
<1> QED BY <1>5, <1>6

\* What may arrive of a spoke's frames.
LEMMA FrameOnTheWire ==
  ASSUME GameInvariant, NEW p \in Players, NEW k \in 1 .. Len(toHub[p])
  PROVE  FrameToHubSound(p, toHub[p][k])
<1>1. IsSequence(toHub[p]) /\ \A n \in DOMAIN toHub[p] : FrameToHubSound(p, toHub[p][n])
  BY DEF GameInvariant, WiresSound
<1>2. DOMAIN toHub[p] = 1 .. Len(toHub[p])
  BY <1>1, SequenceLength
<1> QED BY <1>1, <1>2

LEMMA FirstIsHead ==
  ASSUME NEW s, IsSequence(s), s # << >>
  PROVE  1 \in 1 .. Len(s) /\ Head(s) = s[1]
<1>1. PICK S : s \in Seq(S)
  BY DEF IsSequence
<1> QED BY <1>1

LEMMA HubReceivesRemoteKeeps ==
  ASSUME ~Standalone, GameInvariant, NEW p \in Players, HubReceivesRemote(p)
  PROVE  GameInvariant' /\ Next
<1>1. PICK k \in 1 .. Len(toHub[p]) : HubStep(HubHandles(p, toHub[p][k])) /\ UNCHANGED toHub
  BY DEF HubReceivesRemote
<1>2. HubHandles(p, toHub[p][k])
  BY <1>1 DEF HubStep
<1>3. FrameToHubSound(p, toHub[p][k])
  BY FrameOnTheWire
<1>4. Next /\ HubAdvances
  BY <1>2, <1>3, HubHandlesSoundFrames
<1>5. OnlyTakenFromHub
  BY <1>1 DEF GameInvariant, WiresSound, OnlyTakenFromHub
<1>6. GameInvariant'
  BY <1>1, <1>4, <1>5, HubStepInGame
<1> QED BY <1>4, <1>6

LEMMA HubReceivesLocalKeeps ==
  ASSUME ~Standalone, GameInvariant, NEW p \in Players, HubReceivesLocal(p)
  PROVE  GameInvariant' /\ [Next]_hubVars
<1>1. toHub[p] # << >> /\ toHub' = [toHub EXCEPT ![p] = << >>]
  BY DEF HubReceivesLocal
<1>2. IsSequence(toHub[p]) /\ toHub = [r \in Players |-> toHub[r]]
  BY DEF GameInvariant, WiresSound
<1>3. OnlyTakenFromHub
  BY <1>1, <1>2 DEF OnlyTakenFromHub
<1>4. 1 \in 1 .. Len(toHub[p]) /\ Head(toHub[p]) = toHub[p][1]
  BY <1>1, <1>2, FirstIsHead
<1>5. CASE HubIgnores(p, Head(toHub[p]))
  <2>1. UNCHANGED <<hubVars, spokeVars, toSpoke>>
    BY <1>5 DEF HubReceivesLocal
  <2>2. HubAdvances /\ ~HubSends
    BY <2>1, HubStays DEF GameInvariant
  <2>3. HubWires({}, << >>)
    BY <2>1, <2>2 DEF HubWires
  <2>4. GameInvariant'
    BY <1>3, <2>1, <2>2, <2>3, HubStepKeeps
  <2> QED BY <2>1, <2>4
<1>6. CASE ~HubIgnores(p, Head(toHub[p]))
  <2>1. HubStep(HubHandles(p, Head(toHub[p])))
    BY <1>6 DEF HubReceivesLocal
  <2>2. HubHandles(p, Head(toHub[p]))
    BY <2>1 DEF HubStep
  <2>3. FrameToHubSound(p, Head(toHub[p]))
    BY <1>4, FrameOnTheWire
  <2>4. Next /\ HubAdvances
    BY <2>2, <2>3, HubHandlesSoundFrames
  <2>5. GameInvariant'
    BY <1>3, <2>1, <2>4, HubStepInGame
  <2> QED BY <2>4, <2>5
<1> QED BY <1>5, <1>6

LEMMA SpokeReceivesKeeps ==
  ASSUME ~Standalone, GameInvariant, NEW p \in Players, SpokeReceivesRemote(p) \/ SpokeReceivesLocal(p)
  PROVE  GameInvariant' /\ UNCHANGED hubVars
<1>1. IsSequence(toSpoke[p])
  BY DEF GameInvariant, WiresSound
<1>2. DOMAIN toSpoke[p] = 1 .. Len(toSpoke[p])
  BY <1>1, SequenceLength
<1>3. CASE SpokeReceivesRemote(p)
  <2>1. UNCHANGED <<hubVars, toHub, toSpoke>>
    BY <1>3 DEF SpokeReceivesRemote, wires
  <2>2. \E k \in DOMAIN toSpoke[p] : SpokeReceives(p, toSpoke[p][k])
    BY <1>2, <1>3 DEF SpokeReceivesRemote
  <2> QED BY <2>1, <2>2, SpokeReceiptKeeps
<1>4. CASE SpokeReceivesLocal(p)
  <2>1. UNCHANGED <<hubVars, toHub>> /\ toSpoke[p] # << >> /\ toSpoke' = [toSpoke EXCEPT ![p] = << >>]
    BY <1>4 DEF SpokeReceivesLocal
  <2>2. 1 \in DOMAIN toSpoke[p] /\ Head(toSpoke[p]) = toSpoke[p][1]
    BY <1>1, <1>2, <2>1, FirstIsHead
  <2>3. SpokeReceives(p, Head(toSpoke[p])) \/ UNCHANGED spokeVars
    BY <1>4 DEF SpokeReceivesLocal
  <2> QED BY <2>1, <2>2, <2>3, SpokeReceiptKeeps
<1> QED BY <1>3, <1>4

\* The frames a spoke writes are those the hub is proved for.
LEMMA GameDataIsSound ==
  ASSUME HubInvariant, SpokesSound, NEW p \in Players
  PROVE  FrameToHubSound(p, GameDataFrame(p))
<1>1. /\ smallestUnreceivedTick[p] \in FirstTick .. Horizon
      /\ smallestUnreceivedTick[p] <= smallestUnsentTick
      /\ outgoingReadTick[p] \in FirstTick .. Horizon /\ outgoingWriteTick[p] \in FirstTick .. Horizon
      /\ outgoingReadTick[p] <= outgoingWriteTick[p]
  BY DEF SpokesSound
<1>2. smallestUnreceivedTick[p] \in FirstTick .. smallestUnsentTick
  <2>1. FirstTick \in Int /\ Horizon \in Int /\ smallestUnsentTick \in Int
    BY Constants DEF HubInvariant, TypeOK
  <2> QED BY <1>1, <2>1
<1> QED BY <1>1, <1>2 DEF FrameToHubSound, GameDataFrame

SoundData == \A p \in Players : FrameToHubSound(p, GameDataFrame(p))

LEMMA GameDataIsSoundNext == HubInvariant' /\ SpokesSound' => SoundData'
<1>1. HubInvariant /\ SpokesSound => SoundData
  BY GameDataIsSound DEF SoundData
<1> QED BY <1>1, PTL

LEMMA SpokeSteps ==
  ASSUME ~Standalone, GameInvariant, NEW p \in Players,
         SpokeTicks(p) \/ SpokeSilenced(p) \/ MainThread(p) \/ SpokeLeaves(p)
  PROVE  GameInvariant' /\ UNCHANGED hubVars
<1>1. UNCHANGED <<hubVars, toSpoke>>
  BY DEF SpokeTicks, SpokeSilenced, MainThread, SpokeLeaves, wires
<1>2. HubInvariant' /\ UNCHANGED smallestUnsentTick
  BY <1>1, HubStays DEF GameInvariant, hubVars, sendVars
<1>3. CASE SpokeTicks(p)
  <2>1. SpokeTick(p)
    BY <1>3 DEF SpokeTicks
  <2>2. SpokesSound'
    BY <1>1, <2>1, TickKeepsSound DEF GameInvariant
  <2>3. UNCHANGED <<outgoingReadTick, stillConnected>>
    BY <2>1 DEF SpokeTick, viewVars
  <2>4. SpokeSent(p)
    <3>1. FrameToHubSound(p, GameDataFrame(p)')
      <4>1. FrameToHubSound(p, GameDataFrame(p))'
        BY <1>2, <2>2, GameDataIsSoundNext DEF SoundData
      <4> HIDE DEF GameDataFrame
      <4> QED BY <1>2, <4>1, Zenon DEF FrameToHubSound
    <3>2. FrameToHubSound(p, IdentificationFrame)
      BY DEF FrameToHubSound, IdentificationFrame
    <3>3. \/ toHub' = [toHub EXCEPT ![p] = Sent(@, GameDataFrame(p)')]
          \/ toHub' = [toHub EXCEPT ![p] = Sent(@, IdentificationFrame)]
          \/ UNCHANGED toHub
      BY <1>3 DEF SpokeTicks
    <3> QED BY <3>1, <3>2, <3>3 DEF SpokeSent
  <2> QED BY <1>1, <2>2, <2>3, <2>4, SpokeStepKeeps
<1>4. CASE SpokeSilenced(p) \/ MainThread(p)
  <2>1. SpokeGivesUp(p) \/ ForgetConfirmed(p) \/ GameAdvances(p)
    BY <1>4 DEF SpokeSilenced, MainThread
  <2>2. SpokesSound' /\ UNCHANGED <<outgoingReadTick, stillConnected>>
    BY <1>1, <2>1, OtherSpokeStepsKeepSound DEF GameInvariant
  <2>3. SpokeSent(p)
    BY <1>4 DEF SpokeSilenced, MainThread, wires, SpokeSent
  <2> QED BY <1>1, <2>2, <2>3, SpokeStepKeeps
<1>5. CASE SpokeLeaves(p)
  <2>1. SpokeCleanup(p) /\ toHub' = [toHub EXCEPT ![p] = Sent(@, GameDataFrame(p))]
    BY <1>5 DEF SpokeLeaves
  <2>2. SpokesSound' /\ UNCHANGED <<outgoingReadTick, stillConnected>>
    BY <1>1, <2>1, OtherSpokeStepsKeepSound DEF GameInvariant
  <2>3. SpokeSent(p)
    BY <2>1, GameDataIsSound DEF GameInvariant, SpokeSent
  <2> QED BY <1>1, <2>2, <2>3, SpokeStepKeeps
<1> QED BY <1>1, <1>3, <1>4, <1>5

LEMMA GameRests ==
  ASSUME ~Standalone, GameInvariant, UNCHANGED gameVars
  PROVE  GameInvariant' /\ UNCHANGED hubVars
<1>1. UNCHANGED <<hubVars, spokeVars, toHub, toSpoke>>
  BY DEF gameVars, wires
<1>2. HubAdvances /\ ~HubSends
  BY <1>1, HubStays DEF GameInvariant
<1>3. HubWires({}, << >>)
  BY <1>1, <1>2 DEF HubWires
<1>4. OnlyTakenFromHub
  BY <1>1 DEF GameInvariant, WiresSound, OnlyTakenFromHub
<1> QED BY <1>1, <1>2, <1>3, <1>4, HubStepKeeps

LEMMA GameStep ==
  ASSUME ~Standalone, GameInvariant, [GameNext]_gameVars
  PROVE  GameInvariant' /\ [Next]_hubVars
<1>1. CASE HubTicks
  BY <1>1, HubTicksKeeps
<1>2. CASE HubLeaves
  BY <1>2, HubLeavesKeeps
<1>3. CASE \E p \in Remote : HubReceivesRemote(p) \/ SpokeReceivesRemote(p)
  <2>1. PICK p \in Players : HubReceivesRemote(p) \/ SpokeReceivesRemote(p)
    BY <1>3 DEF Remote
  <2> QED BY <2>1, HubReceivesRemoteKeeps, SpokeReceivesKeeps
<1>4. CASE \E p \in Local : HubReceivesLocal(p) \/ SpokeReceivesLocal(p)
  <2>1. PICK p \in Players : HubReceivesLocal(p) \/ SpokeReceivesLocal(p)
    BY <1>4 DEF Local
  <2> QED BY <2>1, HubReceivesLocalKeeps, SpokeReceivesKeeps
<1>5. CASE \E p \in Players : SpokeTicks(p) \/ SpokeSilenced(p) \/ MainThread(p) \/ SpokeLeaves(p)
  BY <1>5, SpokeSteps
<1>6. CASE UNCHANGED gameVars
  BY <1>6, GameRests
<1> QED BY <1>1, <1>2, <1>3, <1>4, <1>5, <1>6 DEF GameNext

-----------------------------------------------------------------------------

\* A game between the hub of its gatherer and real spokes, over datagrams that are lost, delayed,
\* reordered and repeated, keeps the invariant of both ends and of everything on its way: a
\* spoke is never told of flags that were not sent, acknowledges none it has not been sent and
\* forgets none of its own that the hub lacks.
THEOREM GameSafe == ASSUME ~Standalone PROVE GameSpec => []GameInvariant
<1>1. GameInit => GameInvariant
  BY GameInitInvariant
<1>2. GameInvariant /\ [GameNext]_gameVars => GameInvariant'
  BY GameStep
<1> QED BY <1>1, <1>2, PTL DEF GameSpec

\* What the hub is proved safe for is what happens among real spokes: no frame of theirs, however
\* late, reaches it that its specification does not allow for, so every theorem about the hub is
\* one about the game (hub_received_game_data_packet_v1, lines 941-1014).
THEOREM GameIsAmongSpokes == ASSUME ~Standalone PROVE GameSpec => HubIsAmongSpokes
<1>1. GameInit => Init
  BY DEF GameInit
<1>2. GameInvariant /\ [GameNext]_gameVars => [Next]_hubVars
  BY GameStep
<1> QED BY <1>1, <1>2, GameSafe, PTL DEF GameSpec, HubIsAmongSpokes

\* Among real spokes the hub keeps every flag it may have to send again.
THEOREM GameKeepsWhatItMayResend == ASSUME ~Standalone PROVE GameSpec => []KeepsWhatItMayResend
<1>1. HubIsAmongSpokes => Spec
  BY DEF HubIsAmongSpokes, Spec
<1> QED BY <1>1, GameIsAmongSpokes, HubKeepsWhatItMayResend, PTL

\* Among real spokes no step of the hub changes what was sent.
THEOREM GameSentTicksStand == ASSUME ~Standalone PROVE GameSpec => SentTicksStand
<1>1. HubIsAmongSpokes => Spec
  BY DEF HubIsAmongSpokes, Spec
<1> QED BY <1>1, GameIsAmongSpokes, HubSentTicksStand, PTL

-----------------------------------------------------------------------------
(* Whatever is lost, delayed, reordered or repeated and whoever drops out,   *)
(* every machine that knows of somebody else in the game plays what the hub  *)
(* has settled.                                                              *)

\* madeUp remembers what playerReflectedFlags forgets.
HubRemembers ==
  /\ madeUp = [t \in Ticks |-> madeUp[t]]
  /\ \A t \in Ticks :
       /\ dispositionReadTick <= t => madeUp[t] = playerReflectedFlags[t]
       /\ playerReflectedFlags[t] \subseteq madeUp[t]
       /\ smallestIncompleteTick <= t => madeUp[t] = {}

\* A frame for p holds what is settled: flags for a run of ticks without gaps, p's own left out
\* only if the hub has made up none of them, and deaths at the ticks they are booked for.
FrameDecided(p, f) ==
  /\ \A t \in DOMAIN f.flags : \A q \in DOMAIN f.flags[t] :
       q \in Players /\ f.flags[t][q] = Decided(q, t)
  /\ \A t, u \in DOMAIN f.flags : t .. u \subseteq DOMAIN f.flags
  /\ ~f.reflects => \A t \in DOMAIN f.flags : Decided(p, t) = Real(t)
  /\ \A death \in f.deaths : death[1] \in Players /\ death[2] = netDeadTick[death[1]]

\* p's action queue for q: as far as p has received, what is settled; and no further as long as
\* p is in touch with the hub.
Plays(p, q) ==
  /\ Larger(smallestUnreceivedTick[p], StartingTick) <= StartingTick + Len(gameFlags[p][q])
  /\ spokeConnected[p] =>
       StartingTick + Len(gameFlags[p][q]) = Larger(smallestUnreceivedTick[p], StartingTick)
  /\ \A t \in StartingTick .. smallestUnreceivedTick[p] - 1 :
       gameFlags[p][q][t - StartingTick + 1] = Decided(q, t)

\* The deaths p knows of are dated as the hub has booked them.
DatesDeaths(p) == \A q \in InGame : q \notin stillConnected[p] => deadTick[p][q] = netDeadTick[q]

WiresDecided == \A p \in Players : \A k \in DOMAIN toSpoke[p] : FrameDecided(p, toSpoke[p][k])

SpokesDecided ==
  /\ spokeConnected = [p \in Players |-> spokeConnected[p]]
  /\ deadTick = [p \in Players |-> deadTick[p]]
  /\ \A p \in Players : DatesDeaths(p)
  /\ \A p \in InGame : InCompany(p) => \A q \in InGame : Plays(p, q)

LockstepInvariant == HubRemembers /\ WiresDecided /\ SpokesDecided

-----------------------------------------------------------------------------
(* What is settled stands.                                                   *)

\* A step of the hub: deaths are dated at the first incomplete tick, flags are made up for it.
HubMoves ==
  /\ connected' \subseteq connected
  /\ smallestIncompleteTick <= smallestIncompleteTick'
  /\ dispositionReadTick <= dispositionReadTick'
  /\ \A q \in Players : \/ netDeadTick'[q] = netDeadTick[q] /\ (q \in connected => q \in connected')
                        \/ netDeadTick'[q] = smallestIncompleteTick /\ q \in connected
  /\ \A t \in Ticks :
       \/ t = smallestIncompleteTick /\ t < smallestIncompleteTick' /\ dispositionReadTick' <= t
       \/ /\ playerReflectedFlags'[t] \subseteq playerReflectedFlags[t]
          /\ dispositionReadTick' <= t => playerReflectedFlags'[t] = playerReflectedFlags[t]

LEMMA EveryStepMoves == ASSUME ~Standalone, HubInvariant, [Next]_hubVars PROVE HubMoves
<1>1. /\ smallestIncompleteTick \in Int /\ dispositionReadTick \in Int
      /\ dispositionReadTick <= smallestIncompleteTick
      /\ \A t \in Ticks : t \in Int
      /\ playerReflectedFlags \in [Ticks -> SUBSET Players]
  BY Constants DEF HubInvariant, TypeOK, QueuesLineUp
<1>2. ASSUME UNCHANGED <<connected, netDeadTick, smallestIncompleteTick>>,
             dispositionReadTick' = dispositionReadTick, playerReflectedFlags' = playerReflectedFlags
      PROVE  HubMoves
  BY <1>1, <1>2 DEF HubMoves
<1>3. ASSUME UNCHANGED <<connected, netDeadTick>>, dispositionReadTick' \in Int,
             smallestIncompleteTick <= smallestIncompleteTick', dispositionReadTick <= dispositionReadTick',
             \/ playerReflectedFlags' = playerReflectedFlags
             \/ playerReflectedFlags' = Dequeued(playerReflectedFlags, dispositionReadTick')
      PROVE  HubMoves
  <2>1. \A t \in Ticks : /\ playerReflectedFlags'[t] \subseteq playerReflectedFlags[t]
                         /\ dispositionReadTick' <= t => playerReflectedFlags'[t] = playerReflectedFlags[t]
    BY <1>1, <1>3 DEF Dequeued
  <2> QED BY <1>3, <2>1 DEF HubMoves
<1>4. CASE \E p \in Players, ack, start, end \in FirstTick .. Horizon : SpokeSends(p, ack, start, end)
  <2>1. PICK p \in Players, ack \in FirstTick .. Horizon, start \in FirstTick .. Horizon,
             end \in FirstTick .. Horizon : ReceiveGameData(p, ack, start, end)
    BY <1>4 DEF SpokeSends
  <2>2. /\ smallestIncompleteTick <= smallestIncompleteTick' /\ HubInvariant'
        /\ dispositionReadTick <= dispositionReadTick' /\ UNCHANGED <<connected, netDeadTick>>
    BY <2>1, GameDataInvariant
  <2>3. \/ playerReflectedFlags' = playerReflectedFlags
        \/ playerReflectedFlags' = Dequeued(playerReflectedFlags, dispositionReadTick')
    <3>1. PICK a, end2, b : BookGameData(p, ack, a, end2, b)
      BY <2>1 DEF ReceiveGameData
    <3> QED BY <3>1 DEF BookGameData, Abort, queueVars
  <2>4. dispositionReadTick' \in Int
    BY <2>2, Constants DEF HubInvariant, TypeOK
  <2> QED BY <1>3, <2>2, <2>3, <2>4
<1>5. CASE BookNetDeath
  <2>1. /\ smallestIncompleteTick <= smallestIncompleteTick' /\ HubInvariant'
        /\ dispositionReadTick <= dispositionReadTick'
    BY <1>5, BookNetDeathInvariant
  <2>2. /\ UNCHANGED <<connected, netDeadTick>>
        /\ \/ playerReflectedFlags' = playerReflectedFlags
           \/ playerReflectedFlags' = Dequeued(playerReflectedFlags, dispositionReadTick')
    BY <1>5 DEF BookNetDeath, Abort, playerVars, queueVars
  <2>3. dispositionReadTick' \in Int
    BY <2>1, Constants DEF HubInvariant, TypeOK
  <2> QED BY <1>3, <2>1, <2>2, <2>3
<1>6. CASE ScanNetDead
  <2>1. /\ scan \in connected /\ connected' = connected \ {scan}
        /\ netDeadTick' = [i \in Players |-> IF i \in {scan} THEN smallestIncompleteTick
                                                             ELSE netDeadTick[i]]
        /\ UNCHANGED <<smallestIncompleteTick, dispositionReadTick, playerReflectedFlags>>
    BY <1>6 DEF ScanNetDead, NetDead, queueVars
  <2> QED BY <1>1, <2>1 DEF HubMoves
<1>7. CASE HubTickEnd
  <2>1. /\ UNCHANGED <<connected, netDeadTick, dispositionReadTick>>
        /\ \/ UNCHANGED <<smallestIncompleteTick, playerReflectedFlags>>
           \/ /\ smallestIncompleteTick' = smallestIncompleteTick + 1
              /\ playerReflectedFlags' = [playerReflectedFlags EXCEPT ![smallestIncompleteTick] = @ \cup Missing]
    BY <1>7 DEF HubTickEnd, Abort, playerVars, queueVars
  <2>2. CASE UNCHANGED <<smallestIncompleteTick, playerReflectedFlags>>
    BY <1>2, <2>1, <2>2
  <2>3. CASE /\ smallestIncompleteTick' = smallestIncompleteTick + 1
             /\ playerReflectedFlags' = [playerReflectedFlags EXCEPT ![smallestIncompleteTick] = @ \cup Missing]
    <3>1. \A t \in Ticks : \/ t = smallestIncompleteTick
                           \/ playerReflectedFlags'[t] = playerReflectedFlags[t]
      BY <1>1, <2>3
    <3> QED BY <1>1, <2>1, <2>3, <3>1 DEF HubMoves
  <2> QED BY <2>1, <2>2, <2>3
<1>8. CASE \/ \E p \in Players : ReceiveIdentification(p)
           \/ HubTickBegin
           \/ ScanSurvivors
           \/ HubCleanupEnd
           \/ \E graceful \in BOOLEAN, post \in PostGameTicks : HubCleanup(graceful, post)
           \/ UNCHANGED hubVars
  <2>1. UNCHANGED <<connected, netDeadTick, smallestIncompleteTick, dispositionReadTick, playerReflectedFlags>>
    BY <1>8 DEF ReceiveIdentification, HubTickBegin, ScanSurvivors, HubCleanupEnd, HubCleanup,
                hubVars, playerVars, queueVars
  <2> QED BY <1>2, <2>1
<1> QED BY <1>4, <1>5, <1>6, <1>7, <1>8 DEF Next, HubTick

\* What is settled of the ticks that are complete, and of the dead, stays as it is.
SettledStands ==
  /\ \A t \in Ticks, q \in Players : t < smallestIncompleteTick => Decided(q, t)' = Decided(q, t)
  /\ \A q \in Players : q \notin connected => q \notin connected' /\ netDeadTick'[q] = netDeadTick[q]

LEMMA MovesKeepSettled ==
  ASSUME HubInvariant, HubRemembers, HubMoves, RemembersMadeUp, HubInvariant'
  PROVE  HubRemembers' /\ SettledStands
<1>1. /\ smallestIncompleteTick \in Int /\ smallestIncompleteTick' \in Int
      /\ dispositionReadTick \in Int /\ dispositionReadTick' \in Int
      /\ \A t \in Ticks : t \in Int
      /\ smallestIncompleteTick <= smallestIncompleteTick'
      /\ dispositionReadTick <= dispositionReadTick'
  BY Constants DEF HubInvariant, TypeOK, HubMoves
<1>2. /\ madeUp' = [t \in Ticks |-> madeUp'[t]]
      /\ \A t \in Ticks : madeUp'[t] = madeUp[t] \cup playerReflectedFlags'[t]
  BY DEF RemembersMadeUp
<1>3. ASSUME NEW t \in Ticks, ~(t = smallestIncompleteTick /\ t < smallestIncompleteTick')
      PROVE  madeUp'[t] = madeUp[t] /\ playerReflectedFlags'[t] \subseteq madeUp'[t]
             /\ (dispositionReadTick' <= t => madeUp'[t] = playerReflectedFlags'[t])
  <2>1. /\ playerReflectedFlags'[t] \subseteq playerReflectedFlags[t]
        /\ dispositionReadTick' <= t => playerReflectedFlags'[t] = playerReflectedFlags[t]
    BY <1>3 DEF HubMoves
  <2>2. playerReflectedFlags[t] \subseteq madeUp[t]
        /\ (dispositionReadTick <= t => madeUp[t] = playerReflectedFlags[t])
    BY DEF HubRemembers
  <2>3. dispositionReadTick' <= t => dispositionReadTick <= t
    BY <1>1
  <2> QED BY <1>2, <2>1, <2>2, <2>3
<1>4. HubRemembers'
  <2>1. ASSUME NEW t \in Ticks
        PROVE  /\ dispositionReadTick' <= t => madeUp'[t] = playerReflectedFlags'[t]
               /\ playerReflectedFlags'[t] \subseteq madeUp'[t]
               /\ smallestIncompleteTick' <= t => madeUp'[t] = {}
    <3>1. CASE t = smallestIncompleteTick /\ t < smallestIncompleteTick'
      <4>1. madeUp[t] = {}
        BY <1>1, <3>1 DEF HubRemembers
      <4>2. ~ (smallestIncompleteTick' <= t)
        BY <1>1, <3>1
      <4> QED BY <1>2, <4>1, <4>2
    <3>2. CASE ~(t = smallestIncompleteTick /\ t < smallestIncompleteTick')
      <4>1. smallestIncompleteTick' <= t => madeUp[t] = {}
        BY <1>1 DEF HubRemembers
      <4> QED BY <1>3, <3>2, <4>1
    <3> QED BY <3>1, <3>2
  <2> QED BY <1>2, <2>1 DEF HubRemembers
<1>5. ASSUME NEW t \in Ticks, NEW q \in Players, t < smallestIncompleteTick
      PROVE  Decided(q, t)' = Decided(q, t)
  <2>1. madeUp'[t] = madeUp[t]
    BY <1>1, <1>3, <1>5
  <2>2. (q \notin connected' /\ t >= netDeadTick'[q]) <=> (q \notin connected /\ t >= netDeadTick[q])
    <3>1. \/ netDeadTick'[q] = netDeadTick[q] /\ (q \in connected => q \in connected')
          \/ netDeadTick'[q] = smallestIncompleteTick /\ q \in connected
      BY DEF HubMoves
    <3>2. q \notin connected => q \notin connected'
      BY DEF HubMoves
    <3>3. ~ (t >= smallestIncompleteTick)
      BY <1>1, <1>5
    <3> QED BY <3>1, <3>2, <3>3
  <2> QED BY <2>1, <2>2 DEF Decided, MadeUp, Real, NetDeadFlags
<1>6. \A q \in Players : q \notin connected => q \notin connected' /\ netDeadTick'[q] = netDeadTick[q]
  BY DEF HubMoves
<1> QED BY <1>4, <1>5, <1>6 DEF SettledStands

-----------------------------------------------------------------------------
(* What the hub sends is settled.                                            *)

\* The ticks of a frame are complete and still queued.
LEMMA RangeIsQueued ==
  ASSUME HubInvariant, NEW i \in connected, NEW large, NEW t \in UpdateRange(i, large)[1] .. UpdateRange(i, large)[2] - 1
  PROVE  t \in Ticks /\ dispositionReadTick <= t /\ t < smallestIncompleteTick
<1> DEFINE acked == smallestUnacknowledgedTick[i]
<1>1. /\ i \in Players /\ smallestIncompleteTick \in Int /\ acked \in Int /\ FirstTick <= acked
      /\ smallestIncompleteTick <= Horizon /\ dispositionReadTick \in Int /\ dispositionReadTick <= acked
  BY Constants DEF HubInvariant, TypeOK, QueuesLineUp, Booked
<1>2. /\ UpdateRange(i, large)[1] \in Int /\ acked <= UpdateRange(i, large)[1]
      /\ UpdateRange(i, large)[2] \in Int /\ UpdateRange(i, large)[2] <= smallestIncompleteTick
  <2>1. RecoveryTicks \in Nat /\ IncrementalTicks \in Nat
    BY GameConstants
  <2>2. /\ Smaller(acked + RecoveryTicks, smallestIncompleteTick) \in Int
        /\ Smaller(acked + RecoveryTicks, smallestIncompleteTick) <= smallestIncompleteTick
        /\ Larger(smallestIncompleteTick - IncrementalTicks, acked) \in Int
        /\ acked <= Larger(smallestIncompleteTick - IncrementalTicks, acked)
    BY <1>1, <2>1, Constants DEF Smaller, Larger
  <2>3. UpdateRange(i, large) \in {<<acked, smallestIncompleteTick>>,
           <<acked, Smaller(acked + RecoveryTicks, smallestIncompleteTick)>>,
           <<Larger(smallestIncompleteTick - IncrementalTicks, acked), smallestIncompleteTick>>}
    BY DEF UpdateRange
  <2> QED BY <1>1, <2>2, <2>3
<1> HIDE DEF acked
<1> DEFINE lo == UpdateRange(i, large)[1]
           hi == UpdateRange(i, large)[2]
<1>3. lo \in Int /\ hi \in Int /\ t \in lo .. hi - 1
  BY <1>2
<1>4. acked <= lo /\ hi <= smallestIncompleteTick
  BY <1>2
<1> HIDE DEF lo, hi
<1>5. t \in Int /\ FirstTick <= t /\ t < Horizon /\ dispositionReadTick <= t /\ t < smallestIncompleteTick
  BY <1>1, <1>3, <1>4, Constants
<1> QED BY <1>5, Constants

LEMMA SentIsDecided ==
  ASSUME HubInvariant, HubBooks, HubRemembers, NEW i \in connected, NEW large, NEW a
  PROVE  FrameDecided(i, HubFrame(i, large, a))
<1> DEFINE f == HubFrame(i, large, a)
           ticks == UpdateRange(i, large)[1] .. UpdateRange(i, large)[2] - 1
           reflects == \E t \in ticks : i \in playerReflectedFlags[t]
           sent(t) == {j \in Players : Contributes(j, t) /\ (j = i => reflects)}
           S == {u \in ticks : sent(u) # {}}
           flags(t) == [j \in sent(t) |-> IF j \in playerReflectedFlags[t] THEN MadeUp(t) ELSE Real(t)]
<1>1. f.flags = [t \in S |-> flags(t)] /\ f.reflects = reflects
  BY DEF HubFrame
<1>2. \A t \in ticks : t \in Ticks /\ t \in Int /\ madeUp[t] = playerReflectedFlags[t]
  BY RangeIsQueued, Constants DEF HubRemembers
<1>3. i \in Players /\ \A j \in Players : netDeadTick[j] \in Int
  BY Constants DEF HubInvariant, TypeOK
<1> HIDE DEF ticks, reflects
<1>4. ASSUME NEW t \in S, NEW q \in sent(t) PROVE flags(t)[q] = Decided(q, t)
  <2>1. t \in ticks /\ q \in Players /\ Contributes(q, t)
    OBVIOUS
  <2>2. t \in Int /\ netDeadTick[q] \in Int /\ madeUp[t] = playerReflectedFlags[t]
    BY <1>2, <1>3, <2>1
  <2>3. ~ (q \notin connected /\ t >= netDeadTick[q])
    BY <2>1, <2>2 DEF Contributes
  <2>4. flags(t)[q] = IF q \in playerReflectedFlags[t] THEN MadeUp(t) ELSE Real(t)
    OBVIOUS
  <2> HIDE DEF flags, sent, S
  <2> QED BY <2>2, <2>3, <2>4 DEF Decided
<1>5. ASSUME NEW t \in S, NEW u \in S, NEW v \in t .. u PROVE v \in S
  <2>1. t \in ticks /\ u \in ticks /\ t \in Int /\ u \in Int /\ v \in Int /\ t <= v /\ v <= u
    BY <1>2
  <2>2. v \in ticks
    <3>1. UpdateRange(i, large)[1] \in Int /\ UpdateRange(i, large)[2] \in Int
      <4>1. RecoveryTicks \in Nat /\ IncrementalTicks \in Nat /\ smallestUnacknowledgedTick[i] \in Int
            /\ smallestIncompleteTick \in Int
        BY <1>3, GameConstants, Constants DEF HubInvariant, TypeOK
      <4> QED BY <4>1 DEF UpdateRange, Smaller, Larger
    <3> DEFINE lo == UpdateRange(i, large)[1]
               hi == UpdateRange(i, large)[2]
    <3>2. lo \in Int /\ hi \in Int /\ t \in lo .. hi - 1 /\ u \in lo .. hi - 1
      BY <2>1, <3>1 DEF ticks
    <3> HIDE DEF lo, hi
    <3>3. v \in lo .. hi - 1
      BY <2>1, <3>2
    <3> QED BY <3>3 DEF ticks, lo, hi
  <2>3. PICK q \in Players : Contributes(q, u) /\ (q = i => reflects)
    OBVIOUS
  <2>4. Contributes(q, v)
    <3>1. netDeadTick[q] \in Int
      BY <1>3
    <3> QED BY <2>1, <2>3, <3>1 DEF Contributes
  <2> QED BY <2>2, <2>3, <2>4
<1>6. ASSUME NEW t \in S, ~reflects PROVE Decided(i, t) = Real(t)
  <2>1. t \in ticks
    OBVIOUS
  <2>2. i \notin playerReflectedFlags[t]
    BY <1>6, <2>1 DEF reflects
  <2> QED BY <1>2, <2>1, <2>2 DEF Decided
<1>7. ASSUME NEW death \in f.deaths PROVE death[1] \in Players /\ death[2] = netDeadTick[death[1]]
  BY <1>7 DEF HubFrame
<1>8. DOMAIN f.flags = S /\ \A t \in S : f.flags[t] = flags(t) /\ DOMAIN flags(t) = sent(t)
  BY <1>1
<1> HIDE DEF f, S, flags, sent
<1>9. \A t \in DOMAIN f.flags : \A q \in DOMAIN f.flags[t] :
        q \in Players /\ f.flags[t][q] = Decided(q, t)
  <2>1. \A t \in S : sent(t) \subseteq Players
    BY DEF sent
  <2> QED BY <1>4, <1>8, <2>1
<1>10. \A t, u \in DOMAIN f.flags : t .. u \subseteq DOMAIN f.flags
  BY <1>5, <1>8
<1>11. ~f.reflects => \A t \in DOMAIN f.flags : Decided(i, t) = Real(t)
  BY <1>1, <1>6, <1>8
<1> QED BY <1>7, <1>9, <1>10, <1>11 DEF FrameDecided, f

SendsWhatIsDecided == \A i \in connected : \A large, a : FrameDecided(i, HubFrame(i, large, a))

LEMMA SentIsDecidedNext == HubInvariant' /\ HubBooks' /\ HubRemembers' => SendsWhatIsDecided'
<1>1. HubInvariant /\ HubBooks /\ HubRemembers => SendsWhatIsDecided
  BY SentIsDecided DEF SendsWhatIsDecided
<1> QED BY <1>1, PTL

-----------------------------------------------------------------------------
(* A step of the hub.                                                        *)

\* What a frame on its way holds, and what a machine plays, stays settled.
LEMMA FramesStayDecided ==
  ASSUME HubInvariant, SettledStands, NEW p \in Players, NEW f,
         FrameToSpokeSound(p, f), FrameDecided(p, f)
  PROVE  FrameDecided(p, f)'
<1>1. \A t \in DOMAIN f.flags : t \in Ticks /\ t < smallestIncompleteTick
  <2>1. /\ smallestUnsentTick \in Int /\ smallestIncompleteTick \in Int
        /\ smallestUnsentTick <= smallestIncompleteTick /\ smallestIncompleteTick <= Horizon
    BY Constants DEF HubInvariant, TypeOK, QueuesLineUp
  <2>2. \A t \in FirstTick .. smallestUnsentTick - 1 : t \in Ticks /\ t < smallestIncompleteTick
    BY <2>1, Constants
  <2> QED BY <2>2 DEF FrameToSpokeSound
<1>2. \A t \in DOMAIN f.flags, q \in Players : Decided(q, t)' = Decided(q, t)
  BY <1>1 DEF SettledStands
<1>3. \A death \in f.deaths : netDeadTick'[death[1]] = netDeadTick[death[1]]
  BY DEF FrameToSpokeSound, FrameDecided, SettledStands
<1> QED BY <1>2, <1>3 DEF FrameDecided

LEMMA PlayStaysDecided ==
  ASSUME HubInvariant, SpokesSound, SettledStands, NEW p \in Players, NEW q \in Players,
         UNCHANGED <<gameFlags, spokeConnected, smallestUnreceivedTick>>, Plays(p, q)
  PROVE  Plays(p, q)'
<1>1. \A t \in StartingTick .. smallestUnreceivedTick[p] - 1 : t \in Ticks /\ t < smallestIncompleteTick
  <2>1. /\ smallestUnsentTick \in Int /\ smallestIncompleteTick \in Int
        /\ smallestUnsentTick <= smallestIncompleteTick /\ smallestIncompleteTick <= Horizon
        /\ smallestUnreceivedTick[p] \in Int /\ smallestUnreceivedTick[p] <= smallestUnsentTick
    BY Constants DEF HubInvariant, TypeOK, QueuesLineUp, SpokesSound
  <2>2. StartingTick \in Int /\ FirstTick <= StartingTick
    BY HubConstants DEF FirstTick
  <2> QED BY <2>1, <2>2, Constants
<1>2. \A t \in StartingTick .. smallestUnreceivedTick[p] - 1 : Decided(q, t)' = Decided(q, t)
  BY <1>1 DEF SettledStands
<1> QED BY <1>2 DEF Plays

LEMMA HubStepDecides ==
  ASSUME GameInvariant, HubAdvances, LockstepInvariant, HubRemembers', SettledStands,
         UNCHANGED spokeVars, NEW large, NEW asks, HubWires(large, asks)
  PROVE  LockstepInvariant'
<1>1. UNCHANGED <<gameFlags, spokeConnected, smallestUnreceivedTick, deadTick, stillConnected>>
  BY DEF spokeVars, viewVars, receivedVars
<1>2. HubInvariant /\ SpokesSound
  BY DEF GameInvariant
<1>3. SpokesDecided'
  <2>1. ASSUME NEW p \in Players PROVE DatesDeaths(p)'
    <3>1. ASSUME NEW q \in InGame, q \notin stillConnected[p] PROVE deadTick[p][q] = netDeadTick'[q]
      <4>1. q \in Players /\ q \notin connected
        BY <1>2, <3>1 DEF SpokesSound, InGame
      <4>2. deadTick[p][q] = netDeadTick[q]
        BY <3>1 DEF LockstepInvariant, SpokesDecided, DatesDeaths
      <4> QED BY <4>1, <4>2 DEF SettledStands
    <3> QED BY <1>1, <3>1 DEF DatesDeaths
  <2>2. ASSUME NEW p \in InGame, InCompany(p)', NEW q \in InGame PROVE Plays(p, q)'
    <3>1. Plays(p, q)
      BY <1>1, <2>2 DEF LockstepInvariant, SpokesDecided, InCompany
    <3> QED BY <1>1, <1>2, <3>1, PlayStaysDecided DEF InGame
  <2> QED BY <1>1, <2>1, <2>2 DEF LockstepInvariant, SpokesDecided
<1>4. ASSUME NEW p \in Players, NEW k \in DOMAIN toSpoke[p]
      PROVE  FrameDecided(p, toSpoke[p][k]) /\ FrameToSpokeSound(p, toSpoke[p][k])
  BY DEF LockstepInvariant, WiresDecided, GameInvariant, WiresSound
<1>5. ASSUME NEW p \in Players
      PROVE  \/ toSpoke'[p] = toSpoke[p]
             \/ \E f : FrameDecided(p, f)' /\ toSpoke'[p] = Sent(toSpoke[p], f)
  <2>1. CASE ~HubSends
    BY <2>1 DEF HubWires
  <2>2. CASE HubSends
    <3> DEFINE b == IF p \in DOMAIN asks THEN asks[p] ELSE 0
               f == HubFrame(p, p \in large, b)
    <3>1. toSpoke'[p] = IF p \in connected /\ p \in addressKnown THEN Sent(toSpoke[p], f') ELSE toSpoke[p]
      BY <2>2 DEF HubWires
    <3>2. connected' = connected /\ SendsWhatIsDecided'
      BY <2>2, SentIsDecidedNext DEF HubAdvances
    <3>3. ASSUME p \in connected' PROVE FrameDecided(p, f)'
      BY <3>2, <3>3 DEF SendsWhatIsDecided
    <3> HIDE DEF f
    <3>4. ASSUME p \in connected' PROVE \E g : FrameDecided(p, g)' /\ g = f'
      BY <3>3, <3>4 DEF FrameDecided
    <3> QED BY <3>1, <3>2, <3>4
  <2> QED BY <2>1, <2>2
<1>6. ASSUME NEW p \in Players, NEW k \in DOMAIN toSpoke'[p] PROVE FrameDecided(p, toSpoke[p][k])'
  <2>1. \A j \in DOMAIN toSpoke[p] : \E g : g = toSpoke[p][j] /\ FrameDecided(p, g)'
    BY <1>2, <1>4, FramesStayDecided
  <2>2. \E g : g = toSpoke'[p][k] /\ FrameDecided(p, g)'
    <3>1. CASE toSpoke'[p] = toSpoke[p]
      BY <1>6, <2>1, <3>1
    <3>2. ASSUME NEW f, FrameDecided(p, f)', toSpoke'[p] = Sent(toSpoke[p], f)
          PROVE  \E g : g = toSpoke'[p][k] /\ FrameDecided(p, g)'
      <4>1. IsSequence(toSpoke[p])
        BY DEF GameInvariant, WiresSound
      <4>2. toSpoke'[p][k] = f \/ \E j \in DOMAIN toSpoke[p] : toSpoke'[p][k] = toSpoke[p][j]
        BY <1>6, <3>2, <4>1, OneMoreSent
      <4> QED BY <2>1, <3>2, <4>2
    <3> QED BY <1>5, <3>1, <3>2
  <2> QED BY <2>2 DEF FrameDecided
<1> QED BY <1>3, <1>6 DEF LockstepInvariant, WiresDecided

-----------------------------------------------------------------------------
(* What a spoke does when it receives nothing.                               *)

\* s2 begins with s.
Extends(s, s2) == Len(s) <= Len(s2) /\ \A k \in 1 .. Len(s) : s2[k] = s[k]

\* s2 is s followed by t.
Continues(s, t, s2) ==
  /\ Extends(s, s2) /\ Len(s2) = Len(s) + Len(t)
  /\ \A k \in 1 .. Len(t) : s2[Len(s) + k] = t[k]

LEMMA Concatenation ==
  ASSUME NEW s, NEW t, IsSequence(s), IsSequence(t)
  PROVE  Continues(s, t, s \o t)
<1>1. PICK S : s \in Seq(S)
  BY DEF IsSequence
<1>2. PICK T : t \in Seq(T)
  BY DEF IsSequence
<1>3. s \in Seq(S \cup T) /\ t \in Seq(S \cup T)
  BY <1>1, <1>2
<1>4. Len(s \o t) = Len(s) + Len(t) /\ Len(s) \in Nat /\ Len(t) \in Nat
  BY <1>3
<1>5. \A k \in 1 .. Len(s) : (s \o t)[k] = s[k]
  BY <1>3
<1>6. \A k \in 1 .. Len(t) : (s \o t)[Len(s) + k] = t[k]
  BY <1>3
<1> QED BY <1>4, <1>5, <1>6 DEF Continues, Extends

LEMMA ExtendsOn ==
  ASSUME NEW r, NEW s, NEW t, IsSequence(r), IsSequence(s), IsSequence(t), Extends(r, s), Extends(s, t)
  PROVE  Extends(r, t)
<1>1. Len(r) \in Nat /\ Len(s) \in Nat /\ Len(t) \in Nat
  BY SequenceLength
<1>2. \A k \in 1 .. Len(r) : k \in 1 .. Len(s)
  BY <1>1 DEF Extends
<1> QED BY <1>1, <1>2 DEF Extends

LEMMA FilledExtends ==
  ASSUME NEW queue, NEW tick \in Int, IsSequence(queue)
  PROVE  Extends(queue, FilledWithNetDead(queue, tick))
<1> DEFINE n == Larger(tick - StartingTick - Len(queue), 0)
           filling == [k \in 1 .. n |-> NetDeadFlags]
<1>1. n \in Nat
  BY SequenceLength, Constants DEF Larger
<1>2. filling = [k \in 1 .. n |-> filling[k]]
  OBVIOUS
<1> HIDE DEF n, filling
<1>3. IsSequence(filling)
  BY <1>1, <1>2, Listed
<1>4. Extends(queue, queue \o filling)
  BY <1>3, Concatenation DEF Continues
<1> QED BY <1>4 DEF FilledWithNetDead, filling, n

LEMMA ExtendedPlays ==
  ASSUME SpokesSound, NEW p \in Players, NEW q \in Players, Plays(p, q),
         UNCHANGED <<hubVars, madeUp, smallestUnreceivedTick>>, IsSequence(gameFlags'[p][q]),
         \/ gameFlags'[p][q] = gameFlags[p][q] /\ (spokeConnected'[p] => spokeConnected[p])
         \/ ~spokeConnected'[p] /\ Extends(gameFlags[p][q], gameFlags'[p][q])
  PROVE  Plays(p, q)'
<1>1. \A t : Decided(q, t)' = Decided(q, t)
  BY DEF hubVars, playerVars, Decided
<1>2. UNCHANGED smallestUnreceivedTick
  OBVIOUS
<1>3. CASE gameFlags'[p][q] = gameFlags[p][q] /\ (spokeConnected'[p] => spokeConnected[p])
  BY <1>1, <1>2, <1>3 DEF Plays
<1>4. CASE ~spokeConnected'[p] /\ Extends(gameFlags[p][q], gameFlags'[p][q])
  <2> DEFINE s == gameFlags[p][q]
             s2 == gameFlags'[p][q]
             u == smallestUnreceivedTick[p]
  <2>1. Len(s) \in Nat /\ Len(s2) \in Nat /\ u \in Int /\ StartingTick \in Int
    <3>1. Len(s) \in Nat /\ StartingTick \in Int
      BY SpokeNumbers
    <3>2. u \in Int
      BY Constants DEF SpokesSound
    <3>3. Len(s2) \in Nat
      BY SequenceLength
    <3> QED BY <3>1, <3>2, <3>3
  <2>2. Larger(u, StartingTick) <= StartingTick + Len(s)
    BY DEF Plays
  <2>3. Len(s) <= Len(s2) /\ \A k \in 1 .. Len(s) : s2[k] = s[k]
    BY <1>4 DEF Extends
  <2>4. \A t \in StartingTick .. u - 1 : s[t - StartingTick + 1] = Decided(q, t)
    BY DEF Plays
  <2> HIDE DEF s, s2, u
  <2>5. Larger(u, StartingTick) <= StartingTick + Len(s2)
    BY <2>1, <2>2, <2>3 DEF Larger
  <2>6. \A t \in StartingTick .. u - 1 : t - StartingTick + 1 \in 1 .. Len(s)
    BY <2>1, <2>2 DEF Larger
  <2>7. \A t \in StartingTick .. u - 1 : s2[t - StartingTick + 1] = Decided(q, t)
    BY <2>3, <2>4, <2>6
  <2> QED BY <1>1, <1>2, <1>4, <2>5, <2>7 DEF Plays, s2, u
<1> QED BY <1>3, <1>4

\* A wire of the hub is left alone, or its only frame taken.
OnlyTakenFromSpokes == \A p \in Players : toSpoke'[p] \in {toSpoke[p], << >>}

LEMMA WiresStayDecided ==
  ASSUME WiresDecided, UNCHANGED <<hubVars, madeUp>>, OnlyTakenFromSpokes
  PROVE  WiresDecided'
<1>1. \A p \in Players : \A f : FrameDecided(p, f) => \E g : g = f /\ FrameDecided(p, g)'
  BY DEF hubVars, playerVars, FrameDecided, Decided
<1>2. ASSUME NEW p \in Players, NEW k \in DOMAIN toSpoke'[p] PROVE FrameDecided(p, toSpoke[p][k])'
  <2>1. toSpoke'[p] = toSpoke[p]
    BY <1>2, EmptySequence DEF OnlyTakenFromSpokes
  <2>2. \E g : g = toSpoke'[p][k] /\ FrameDecided(p, g)'
    BY <1>1, <1>2, <2>1 DEF WiresDecided
  <2> QED BY <2>2 DEF FrameDecided
<1> QED BY <1>2 DEF WiresDecided

LEMMA HubStillRemembers == ASSUME HubRemembers, UNCHANGED <<hubVars, madeUp>> PROVE HubRemembers'
BY DEF hubVars, queueVars, HubRemembers

\* A spoke that takes nothing from the hub appends to its queues only once it is cut off.
OnlyExtends ==
  /\ UNCHANGED <<hubVars, madeUp, smallestUnreceivedTick, stillConnected, deadTick>>
  /\ spokeConnected' = [r \in Players |-> spokeConnected'[r]]
  /\ \A r \in Players : spokeConnected'[r] => spokeConnected[r]
  /\ \A r, q \in Players : \/ gameFlags'[r][q] = gameFlags[r][q]
                           \/ ~spokeConnected'[r] /\ Extends(gameFlags[r][q], gameFlags'[r][q])

LEMMA TickOnlyExtends ==
  ASSUME SpokesSound, NEW p \in Players, SpokeTick(p), UNCHANGED <<hubVars, madeUp>>,
         spokeConnected = [r \in Players |-> spokeConnected[r]]
  PROVE  OnlyExtends
<1>1. UNCHANGED <<hubVars, madeUp, smallestUnreceivedTick, stillConnected, deadTick, spokeConnected>>
  BY DEF SpokeTick, viewVars
<1>2. CASE ConnectedTick(p)
  <2>1. UNCHANGED gameFlags
    BY <1>2 DEF ConnectedTick
  <2> QED BY <1>1, <2>1 DEF OnlyExtends
<1>3. CASE CutOffTick(p)
  <2> DEFINE news == [k \in 1 .. FlagsProvided(p) |-> AloneFlags]
             own == gameFlags[p][p] \o news
             queues == [q \in Players |-> IF q = p THEN own \o Unconfirmed(p)
                              ELSE IF q \in Zombies THEN gameFlags[p][q]
                              ELSE FilledWithNetDead(gameFlags[p][q], StartingTick + Len(own))]
  <2>1. gameFlags' = [gameFlags EXCEPT ![p] = queues] /\ ~spokeConnected[p]
    BY <1>3 DEF CutOffTick
  <2>2. IsSequence(own) /\ Extends(gameFlags[p][p], own)
    <3>1. FlagsProvided(p) \in Nat /\ news = [k \in 1 .. FlagsProvided(p) |-> news[k]]
      BY FlagsFit
    <3>2. IsSequence(gameFlags[p][p])
      BY SpokeNumbers
    <3> HIDE DEF news
    <3>3. IsSequence(news)
      BY <3>1, Listed
    <3> QED BY <3>2, <3>3, Concatenated, Concatenation DEF Continues
  <2> HIDE DEF own
  <2>3. ASSUME NEW q \in Players
        PROVE  queues[q] = gameFlags[p][q] \/ Extends(gameFlags[p][q], queues[q])
    <3>1. CASE q = p
      <4>1. IsSequence(gameFlags[p][p]) /\ IsSequence(Unconfirmed(p))
        BY SpokeNumbers
      <4>2. Extends(own, own \o Unconfirmed(p)) /\ IsSequence(own \o Unconfirmed(p))
        BY <2>2, <4>1, Concatenated, Concatenation DEF Continues
      <4>3. Extends(gameFlags[p][p], own \o Unconfirmed(p))
        BY <2>2, <4>1, <4>2, ExtendsOn
      <4> QED BY <3>1, <4>3
    <3>2. CASE q # p /\ q \notin Zombies
      <4>1. IsSequence(gameFlags[p][q])
        BY SpokeNumbers
      <4>2. StartingTick + Len(own) \in Int
        BY <2>2, SpokeNumbers, SequenceLength
      <4>3. Extends(gameFlags[p][q], FilledWithNetDead(gameFlags[p][q], StartingTick + Len(own)))
        BY <4>1, <4>2, FilledExtends
      <4> QED BY <3>2, <4>3
    <3> QED BY <3>1, <3>2
  <2> HIDE DEF queues
  <2>4. gameFlags' = [r \in Players |-> IF r = p THEN queues ELSE gameFlags[r]]
    BY <2>1 DEF SpokesSound
  <2> QED BY <1>1, <2>1, <2>3, <2>4 DEF OnlyExtends
<1> QED BY <1>2, <1>3 DEF SpokeTick

LEMMA SpokeStepExtends ==
  ASSUME SpokesSound, NEW p \in Players,
         SpokeTicks(p) \/ SpokeSilenced(p) \/ MainThread(p) \/ SpokeLeaves(p),
         spokeConnected = [r \in Players |-> spokeConnected[r]]
  PROVE  OnlyExtends /\ UNCHANGED toSpoke
<1>1. UNCHANGED <<hubVars, madeUp, toSpoke>>
  BY DEF SpokeTicks, SpokeSilenced, MainThread, SpokeLeaves, wires
<1>2. CASE SpokeTicks(p)
  <2>1. SpokeTick(p)
    BY <1>2 DEF SpokeTicks
  <2> QED BY <1>1, <2>1, TickOnlyExtends
<1>3. CASE SpokeSilenced(p)
  <2>1. /\ UNCHANGED <<smallestUnreceivedTick, stillConnected, deadTick, gameFlags>>
        /\ spokeConnected' = [spokeConnected EXCEPT ![p] = FALSE]
    BY <1>3 DEF SpokeSilenced, SpokeGivesUp, receivedVars
  <2> QED BY <1>1, <2>1 DEF OnlyExtends
<1>4. CASE MainThread(p) \/ SpokeLeaves(p)
  <2>1. UNCHANGED <<smallestUnreceivedTick, stillConnected, deadTick, gameFlags, spokeConnected>>
    BY <1>4 DEF MainThread, SpokeLeaves, ForgetConfirmed, GameAdvances, SpokeCleanup, receivedVars, viewVars
  <2> QED BY <1>1, <2>1 DEF OnlyExtends
<1> QED BY <1>2, <1>3, <1>4

LEMMA ExtendingDecides ==
  ASSUME LockstepInvariant, SpokesSound, SpokesSound', OnlyExtends, OnlyTakenFromSpokes
  PROVE  LockstepInvariant'
<1>1. /\ UNCHANGED <<hubVars, madeUp, smallestUnreceivedTick, stillConnected, deadTick>>
      /\ UNCHANGED <<hubVars, madeUp>> /\ UNCHANGED <<hubVars, madeUp, smallestUnreceivedTick>>
  BY DEF OnlyExtends
<1>2. HubRemembers' /\ WiresDecided'
  BY <1>1, HubStillRemembers, WiresStayDecided DEF LockstepInvariant
<1>3. \A p \in Players : DatesDeaths(p)'
  BY <1>1 DEF LockstepInvariant, SpokesDecided, DatesDeaths, hubVars, playerVars
<1>4. ASSUME NEW p \in InGame, InCompany(p)', NEW q \in InGame PROVE Plays(p, q)'
  <2>1. p \in Players /\ q \in Players
    BY DEF InGame
  <2>2. Plays(p, q)
    BY <1>1, <1>4 DEF LockstepInvariant, SpokesDecided, InCompany
  <2>3. IsSequence(gameFlags'[p][q])
    BY <2>1 DEF SpokesSound
  <2>4. \/ gameFlags'[p][q] = gameFlags[p][q] /\ (spokeConnected'[p] => spokeConnected[p])
        \/ ~spokeConnected'[p] /\ Extends(gameFlags[p][q], gameFlags'[p][q])
    BY <2>1 DEF OnlyExtends
  <2> QED BY <1>1, <2>1, <2>2, <2>3, <2>4, ExtendedPlays
<1>5. spokeConnected' = [r \in Players |-> spokeConnected'[r]] /\ deadTick' = deadTick
  BY <1>1 DEF OnlyExtends
<1> QED BY <1>2, <1>3, <1>4, <1>5 DEF LockstepInvariant, SpokesDecided

-----------------------------------------------------------------------------
(* What a spoke takes from a frame.                                          *)

LEMMA DeathsTold ==
  ASSUME SpokesSound, NEW p \in Players, DatesDeaths(p), NEW f,
         FrameToSpokeSound(p, f), FrameDecided(p, f), NEW q \in InGame, q \notin StillConnected(p, f)
  PROVE  q \notin connected /\ DeadTicks(p, f)[q] = netDeadTick[q]
<1>1. q \in Players
  BY DEF InGame
<1>2. DeadTicks(p, f)[q] = IF \E death \in f.deaths : death[1] = q
                           THEN (CHOOSE death \in f.deaths : death[1] = q)[2]
                           ELSE deadTick[p][q]
  BY <1>1 DEF DeadTicks
<1>3. CASE \E death \in f.deaths : death[1] = q
  <2> DEFINE d == CHOOSE death \in f.deaths : death[1] = q
  <2>1. d \in f.deaths /\ d[1] = q
    BY <1>3
  <2> HIDE DEF d
  <2>2. q \notin connected /\ d[2] = netDeadTick[q]
    BY <2>1 DEF FrameToSpokeSound, FrameDecided
  <2> QED BY <1>2, <1>3, <2>2 DEF d
<1>4. CASE ~ \E death \in f.deaths : death[1] = q
  <2>1. q \notin stillConnected[p]
    BY <1>4 DEF StillConnected
  <2> QED BY <1>1, <1>2, <1>4, <2>1 DEF SpokesSound, DatesDeaths
<1> QED BY <1>3, <1>4

\* What p enqueues for q in a new tick is settled.
LEMMA TakesWhatIsDecided ==
  ASSUME GameInvariant, NEW p \in InGame, DatesDeaths(p), NEW f,
         FrameToSpokeSound(p, f), FrameDecided(p, f), NEW q \in InGame, NEW t \in DOMAIN f.flags,
         ReadsFlagsOf(p, f, t) = DOMAIN f.flags[t],
         ~f.reflects => smallestUnconfirmedTick[p] = Larger(smallestUnreceivedTick[p], StartingTick)
  PROVE  TakenFlags(p, f, q, t) = Decided(q, t)
<1>1. /\ p \in Players /\ q \in Players /\ q \in Players \ Zombies /\ t \in Int
      /\ netDeadTick[q] \in Int
  BY Constants DEF InGame, FrameToSpokeSound, GameInvariant, HubInvariant, TypeOK
<1>2. CASE q = p /\ ~f.reflects
  <2> DEFINE first == Larger(smallestUnreceivedTick[p], StartingTick)
  <2>1. first \in Int /\ smallestUnconfirmedTick[p] = first
    BY <1>1, <1>2, Constants DEF GameInvariant, SpokesSound, Larger
  <2>2. TakenFlags(p, f, q, t) = Real(smallestUnconfirmedTick[p] + t - first)
    BY <1>2 DEF TakenFlags
  <2> HIDE DEF first
  <2>3. smallestUnconfirmedTick[p] + t - first = t
    BY <1>1, <2>1
  <2> QED BY <1>2, <2>2, <2>3 DEF FrameDecided
<1>3. CASE ~ (q = p /\ ~f.reflects) /\ Gone(p, f, q, t)
  <2>1. q \notin StillConnected(p, f) /\ DeadTicks(p, f)[q] <= t
    BY <1>3 DEF Gone
  <2>2. q \notin connected /\ DeadTicks(p, f)[q] = netDeadTick[q]
    BY <1>1, <2>1, DeathsTold DEF GameInvariant
  <2>3. t >= netDeadTick[q]
    BY <1>1, <2>1, <2>2
  <2> QED BY <1>3, <2>2, <2>3 DEF TakenFlags, Decided
<1>4. CASE ~ (q = p /\ ~f.reflects) /\ ~Gone(p, f, q, t)
  <2>1. q \in DOMAIN f.flags[t]
    BY <1>1, <1>4 DEF ReadsFlagsOf
  <2>2. f.flags[t][q] = Decided(q, t)
    BY <2>1 DEF FrameDecided
  <2> QED BY <1>4, <2>2 DEF TakenFlags
<1> QED BY <1>2, <1>3, <1>4

LEMMA LargerOf ==
  ASSUME NEW a \in Int, NEW b \in Int
  PROVE  Larger(a, b) \in Int /\ ((Larger(a, b) = a /\ b <= a) \/ (Larger(a, b) = b /\ a <= b))
BY DEF Larger

\* An action queue that holds what is decided up to tick u; it is continued with new flags up to
\* tick stop, which agree with what is decided.
Holds(s, u, decided) == \A t \in StartingTick .. u - 1 : s[t - StartingTick + 1] = decided[t]
Agree(new, decided, u, stop) == \A t \in Larger(u, StartingTick) .. stop - 1 : new[t] = decided[t]
Continued(s, u, new, stop) ==
  s \o [k \in 1 .. Larger(stop - Larger(u, StartingTick), 0) |-> new[Larger(u, StartingTick) + k - 1]]

LEMMA ContinuedQueue ==
  ASSUME NEW s, IsSequence(s), NEW u \in Int, NEW stop \in Int, NEW decided, NEW new,
         StartingTick + Len(s) = Larger(u, StartingTick),
         Holds(s, u, decided), Agree(new, decided, u, stop)
  PROVE  /\ StartingTick + Len(Continued(s, u, new, stop)) = Larger(Larger(u, stop), StartingTick)
         /\ Holds(Continued(s, u, new, stop), Larger(u, stop), decided)
<1> DEFINE first == Larger(u, StartingTick)
           taken == Larger(stop - first, 0)
           more == [k \in 1 .. taken |-> new[first + k - 1]]
           s2 == Continued(s, u, new, stop)
<1>0. s2 = s \o more
  BY DEF Continued
<1>1. StartingTick \in Int /\ Len(s) \in Nat
  BY Constants, SequenceLength
<1>2. first \in Int /\ u <= first /\ StartingTick <= first /\ (first = u \/ first = StartingTick)
  BY <1>1 DEF Larger
<1>3. StartingTick + Len(s) = first /\ \A t \in first .. stop - 1 : new[t] = decided[t]
  BY DEF Agree
<1> HIDE DEF first, s2
<1>4. taken \in Nat /\ (taken = stop - first \/ (taken = 0 /\ stop <= first)) /\ stop - first <= taken
  BY <1>2 DEF Larger
<1>5. IsSequence(more) /\ Len(more) = taken /\ \A k \in 1 .. taken : more[k] = new[first + k - 1]
  <2>1. more = [k \in 1 .. taken |-> more[k]] /\ DOMAIN more = 1 .. taken
    OBVIOUS
  <2>2. \A k \in 1 .. taken : more[k] = new[first + k - 1]
    OBVIOUS
  <2> HIDE DEF more, taken
  <2>3. IsSequence(more)
    BY <1>4, <2>1, Listed
  <2>4. Len(more) \in Nat /\ 1 .. Len(more) = 1 .. taken
    BY <2>1, <2>3, SequenceLength
  <2>5. Len(more) = taken
    BY <1>4, <2>4
  <2> QED BY <2>2, <2>3, <2>5
<1>6. /\ Len(s2) = Len(s) + taken
      /\ \A k \in 1 .. Len(s) : s2[k] = s[k]
      /\ \A k \in 1 .. taken : s2[Len(s) + k] = more[k]
  <2> HIDE DEF more, taken
  <2>1. Continues(s, more, s2)
    BY <1>0, <1>5, Concatenation
  <2> QED BY <1>5, <2>1 DEF Continues, Extends
<1> DEFINE u2 == Larger(u, stop)
<1>7. u2 \in Int /\ ((u2 = u /\ stop <= u) \/ (u2 = stop /\ u <= stop))
  BY LargerOf
<1> HIDE DEF more, taken, u2
<1>8. StartingTick + Len(s2) = Larger(u2, StartingTick)
  BY <1>1, <1>2, <1>3, <1>4, <1>6, <1>7 DEF Larger
<1>9. ASSUME NEW t \in StartingTick .. u2 - 1 PROVE s2[t - StartingTick + 1] = decided[t]
  <2>1. CASE t < u
    <3>1. t \in StartingTick .. u - 1 /\ t - StartingTick + 1 \in 1 .. Len(s)
      BY <1>1, <1>2, <1>3, <1>7, <2>1
    <3> QED BY <1>6, <3>1 DEF Holds
  <2>2. CASE ~ (t < u)
    <3> DEFINE k == t - first + 1
    <3>1. /\ t \in first .. stop - 1 /\ k \in 1 .. taken /\ first + k - 1 = t
          /\ t - StartingTick + 1 = Len(s) + k
      BY <1>1, <1>2, <1>3, <1>4, <1>7, <2>2
    <3> HIDE DEF k
    <3>2. s2[Len(s) + k] = new[first + k - 1]
      BY <1>5, <1>6, <3>1
    <3> QED BY <1>3, <3>1, <3>2
  <2> QED BY <2>1, <2>2
<1> QED BY <1>8, <1>9 DEF u2, s2, Holds

\* The loop over the ticks of a packet.
LEMMA FlagsPlayed ==
  ASSUME GameInvariant, SpokesSound', UNCHANGED <<hubVars, madeUp, spokeConnected>>,
         NEW p \in InGame, spokeConnected[p], DatesDeaths(p), \A q \in InGame : Plays(p, q),
         NEW f, FrameToSpokeSound(p, f), FrameDecided(p, f),
         NEW start \in Int, start <= smallestUnreceivedTick[p],
         NEW stop \in Int, start .. stop - 1 \subseteq DOMAIN f.flags,
         ReceiveFlags(p, f, start, stop), NEW q \in InGame
  PROVE  Plays(p, q)'
<1> DEFINE u == smallestUnreceivedTick[p]
           first == Larger(u, StartingTick)
           taken == Larger(stop - first, 0)
           more == [k \in 1 .. taken |-> TakenFlags(p, f, q, first + k - 1)]
           decided == [t \in Int |-> Decided(q, t)]
           new == [t \in Int |-> TakenFlags(p, f, q, t)]
           s == gameFlags[p][q]
           s2 == Continued(s, u, new, stop)
<1>1. /\ u \in Int /\ StartingTick \in Int /\ p \in Players /\ q \in Players /\ q \notin Zombies
      /\ IsSequence(s) /\ gameFlags = [r \in Players |-> [x \in Players |-> gameFlags[r][x]]]
      /\ smallestUnreceivedTick \in [Players -> Int]
  BY Constants DEF GameInvariant, SpokesSound, InGame
<1>2. first \in Int /\ u <= first /\ StartingTick <= first
  BY <1>1 DEF Larger
<1>3. SpokesSound
  BY DEF GameInvariant
<1>4. CASE UNCHANGED <<gameFlags, smallestUnreceivedTick>>
  <2>1. IsSequence(gameFlags'[p][q]) /\ gameFlags'[p][q] = gameFlags[p][q]
    BY <1>1, <1>4
  <2>2. UNCHANGED <<hubVars, madeUp, smallestUnreceivedTick>> /\ spokeConnected' = spokeConnected
    BY <1>4
  <2> QED BY <1>1, <1>3, <2>1, <2>2, ExtendedPlays
<1>5. CASE ~ UNCHANGED <<gameFlags, smallestUnreceivedTick>>
  <2>1. /\ gameFlags' = [gameFlags EXCEPT ![p] =
               [x \in Players |-> IF x \in Zombies THEN @[x]
                  ELSE @[x] \o [k \in 1 .. taken |-> TakenFlags(p, f, x, first + k - 1)]]]
        /\ smallestUnreceivedTick' = [smallestUnreceivedTick EXCEPT ![p] = Larger(@, stop)]
        /\ \A t \in start .. stop - 1 : ReadsFlagsOf(p, f, t) = DOMAIN f.flags[t]
        /\ ~f.reflects /\ taken > 0 => GameWriteTick(p, p) = smallestUnconfirmedTick[p]
    <3> DEFINE queues == [x \in Players |-> IF x \in Zombies THEN gameFlags[p][x]
                  ELSE gameFlags[p][x] \o [k \in 1 .. taken |-> TakenFlags(p, f, x, first + k - 1)]]
    <3>1. IF FailedAsserts(p, f, start, stop) # {}
          THEN UNCHANGED receivedVars
          ELSE /\ gameFlags' = [gameFlags EXCEPT ![p] = queues]
               /\ smallestUnreceivedTick' = [smallestUnreceivedTick EXCEPT ![p] = Larger(@, stop)]
      BY DEF ReceiveFlags
    <3>2. FailedAsserts(p, f, start, stop) = {}
      <4> HIDE DEF queues
      <4> QED BY <1>5, <3>1 DEF receivedVars
    <3>3. ~ \E t \in start .. stop - 1 : ReadsFlagsOf(p, f, t) # DOMAIN f.flags[t]
      BY <3>2 DEF FailedAsserts
    <3>4. ~f.reflects /\ taken > 0 => GameWriteTick(p, p) = smallestUnconfirmedTick[p]
      <4>1. ~f.reflects /\ taken > 0 /\ GameWriteTick(p, p) # smallestUnconfirmedTick[p]
              => 534 \in FailedAsserts(p, f, start, stop)
        BY <3>3 DEF FailedAsserts
      <4> QED BY <3>2, <4>1
    <3>5. /\ gameFlags' = [gameFlags EXCEPT ![p] = queues]
          /\ smallestUnreceivedTick' = [smallestUnreceivedTick EXCEPT ![p] = Larger(@, stop)]
      BY <3>1, <3>2
    <3> QED BY <3>3, <3>4, <3>5
  <2>2. smallestUnreceivedTick'[p] = Larger(u, stop)
    BY <1>1, <2>1
  <2>3. gameFlags'[p][q] = s2
    <3>1. gameFlags'[p][q] = s \o more
      <4> HIDE DEF taken, first
      <4> QED BY <1>1, <2>1
    <3>2. \A k \in 1 .. taken : first + k - 1 \in Int
      BY <1>2
    <3>3. more = [k \in 1 .. taken |-> new[first + k - 1]]
      <4> HIDE DEF taken, first
      <4> QED BY <3>2
    <3> QED BY <3>1, <3>3 DEF Continued
  <2>4. StartingTick + Len(s) = first /\ StartingTick + Len(gameFlags[p][p]) = first
    BY DEF Plays
  <2>5. \A t \in StartingTick .. u - 1 : s[t - StartingTick + 1] = decided[t]
    <3>1. \A t \in StartingTick .. u - 1 : s[t - StartingTick + 1] = Decided(q, t)
      BY DEF Plays
    <3> HIDE DEF s, u
    <3>2. \A t \in StartingTick .. u - 1 : t \in Int
      BY <1>1
    <3> QED BY <3>1, <3>2
  <2>6. ASSUME NEW t \in first .. stop - 1 PROVE new[t] = decided[t]
    <3>1. t \in Int /\ t \in start .. stop - 1 /\ taken > 0
      <4> HIDE DEF u
      <4>1. start <= u
        BY DEF u
      <4> HIDE DEF first
      <4> QED BY <1>1, <1>2, <2>6, <4>1 DEF Larger
    <3>2. ~f.reflects => smallestUnconfirmedTick[p] = first
      BY <2>1, <2>4, <3>1 DEF GameWriteTick
    <3>3. t \in DOMAIN f.flags /\ ReadsFlagsOf(p, f, t) = DOMAIN f.flags[t]
      BY <2>1, <3>1
    <3>4. TakenFlags(p, f, q, t) = Decided(q, t)
      BY <3>2, <3>3, TakesWhatIsDecided
    <3> QED BY <3>1, <3>4
  <2>7. /\ StartingTick + Len(s2) = Larger(Larger(u, stop), StartingTick)
        /\ Holds(s2, Larger(u, stop), decided)
    <3> HIDE DEF s, u, decided, new
    <3>1. StartingTick + Len(s) = Larger(u, StartingTick)
      BY <2>4
    <3>2. Holds(s, u, decided) /\ Agree(new, decided, u, stop)
      BY <2>5, <2>6 DEF Holds, Agree
    <3> QED BY <1>1, <3>1, <3>2, ContinuedQueue
  <2>8. Larger(u, stop) \in Int /\ \A t \in StartingTick .. Larger(u, stop) - 1 : t \in Int
    BY <1>1, LargerOf
  <2>9. \A t : Decided(q, t)' = Decided(q, t)
    BY DEF hubVars, playerVars, Decided
  <2>10. \A t \in StartingTick .. Larger(u, stop) - 1 : s2[t - StartingTick + 1] = Decided(q, t)
    <3> HIDE DEF s2, u
    <3> QED BY <2>7, <2>8 DEF Holds
  <2>11. Larger(Larger(u, stop), StartingTick) \in Int
    BY <1>1, <2>8, LargerOf
  <2> HIDE DEF s2, u
  <2> QED BY <2>2, <2>3, <2>7, <2>9, <2>10, <2>11 DEF Plays
<1> QED BY <1>4, <1>5

\* A spoke that does not find itself alone plays what it receives as the hub has settled it.
LEMMA ReceiptPlays ==
  ASSUME GameInvariant, SpokesSound', UNCHANGED <<hubVars, madeUp>>,
         NEW p \in InGame, DatesDeaths(p), \A q \in InGame : Plays(p, q),
         NEW f, FrameToSpokeSound(p, f), FrameDecided(p, f),
         SpokeReceives(p, f), InCompany(p)', NEW q \in InGame
  PROVE  Plays(p, q)'
<1> DEFINE acked == Larger(outgoingReadTick[p], Smaller(f.ack, outgoingWriteTick[p]))
           start == CHOOSE t \in DOMAIN f.flags : \A u \in DOMAIN f.flags : t <= u
           last  == CHOOSE t \in DOMAIN f.flags : \A u \in DOMAIN f.flags : u <= t
           stop  == Smaller(last + 1, smallestUnreceivedTick[p] + QueueSpace(p))
<1>1. /\ spokeConnected[p] /\ UNCHANGED spokeConnected /\ p \in Players /\ q \in Players /\ SpokesSound
      /\ UNCHANGED <<hubVars, madeUp, spokeConnected>>
  BY DEF SpokeReceives, InGame, GameInvariant
<1>2. CASE UNCHANGED <<gameFlags, smallestUnreceivedTick>>
  <2>1. IsSequence(gameFlags'[p][q]) /\ gameFlags'[p][q] = gameFlags[p][q]
    BY <1>1, <1>2 DEF SpokesSound
  <2>2. UNCHANGED <<hubVars, madeUp, smallestUnreceivedTick>> /\ spokeConnected' = spokeConnected
    BY <1>1, <1>2
  <2> QED BY <1>1, <2>1, <2>2, ExtendedPlays
<1>3. CASE ~ UNCHANGED <<gameFlags, smallestUnreceivedTick>>
  <2>1. ReceiveTicks(p, f, acked) /\ stillConnected' = [stillConnected EXCEPT ![p] = StillConnected(p, f)]
    BY <1>3 DEF SpokeReceives, receivedVars
  <2>2. ~WeAreAlone(p, f, acked)
    <3>1. stillConnected'[p] = StillConnected(p, f)
      BY <1>1, <2>1 DEF SpokesSound
    <3> QED BY <3>1 DEF InCompany, WeAreAlone
  <2>3. f.flags # << >> /\ ~SkipsTicks(p, start) /\ ReceiveFlags(p, f, start, stop)
    <3> HIDE DEF start, stop, acked
    <3>1. ~ReceiveNoFlags(p, f, acked)
      BY <1>3, <2>2 DEF ReceiveNoFlags
    <3>2. ~UNCHANGED receivedVars
      BY <1>3 DEF receivedVars
    <3> QED BY <2>1, <3>1, <3>2 DEF ReceiveTicks, start, stop
  <2>4. smallestUnsentTick \in Int /\ smallestUnreceivedTick[p] \in Int /\ QueueSpace(p) \in Int
    BY <1>1, Constants, QueueSpaceIsNumber DEF GameInvariant, SpokesSound, HubInvariant, TypeOK
  <2>5. DOMAIN f.flags # {}
    <3>1. f.flags = [t \in DOMAIN f.flags |-> f.flags[t]]
      BY DEF FrameToSpokeSound
    <3>2. << >> = [t \in DOMAIN << >> |-> << >>[t]]
      OBVIOUS
    <3>3. DOMAIN << >> = {}
      BY EmptySequence
    <3> QED BY <2>3, <3>1, <3>2, <3>3
  <2>6. /\ DOMAIN f.flags \in SUBSET Int
        /\ \A t \in DOMAIN f.flags : t <= smallestUnsentTick - 1
        /\ \A t \in DOMAIN f.flags : FirstTick <= t
    BY <2>4, Constants DEF FrameToSpokeSound
  <2>7. last \in DOMAIN f.flags
    <3>1. smallestUnsentTick - 1 \in Int
      BY <2>4
    <3>2. \E t \in DOMAIN f.flags : \A u \in DOMAIN f.flags : u <= t
      BY <2>5, <2>6, <3>1, GreatestInteger
    <3> QED BY <3>2
  <2>8. start \in DOMAIN f.flags
    <3>1. FirstTick \in Int
      BY Constants
    <3>2. \E t \in DOMAIN f.flags : \A u \in DOMAIN f.flags : t <= u
      BY <2>5, <2>6, <3>1, LeastInteger
    <3> QED BY <3>2
  <2> HIDE DEF last, start
  <2>9. last \in Int /\ start \in Int /\ start .. last \subseteq DOMAIN f.flags
    BY <2>6, <2>7, <2>8 DEF FrameDecided
  <2>10. stop \in Int /\ stop <= last + 1 /\ start <= smallestUnreceivedTick[p]
    BY <2>3, <2>4, <2>9 DEF Smaller, SkipsTicks
  <2> HIDE DEF stop
  <2>11. start .. stop - 1 \subseteq DOMAIN f.flags
    <3>1. start .. stop - 1 \subseteq start .. last
      BY <2>9, <2>10
    <3> QED BY <2>9, <3>1
  <2> QED BY <1>1, <2>3, <2>9, <2>10, <2>11, FlagsPlayed
<1> QED BY <1>2, <1>3

\* What is received of others than p.
LEMMA OthersStay ==
  ASSUME SpokesSound, NEW p \in Players, NEW f, SpokeReceives(p, f),
         spokeConnected = [r \in Players |-> spokeConnected[r]],
         deadTick = [r \in Players |-> deadTick[r]]
  PROVE  /\ spokeConnected' = spokeConnected
         /\ deadTick' = [r \in Players |-> deadTick'[r]]
         /\ \/ stillConnected'[p] = stillConnected[p] /\ deadTick'[p] = deadTick[p]
            \/ stillConnected'[p] = StillConnected(p, f) /\ deadTick'[p] = DeadTicks(p, f)
         /\ \A r \in Players \ {p} :
              /\ stillConnected'[r] = stillConnected[r] /\ deadTick'[r] = deadTick[r]
              /\ gameFlags'[r] = gameFlags[r] /\ smallestUnreceivedTick'[r] = smallestUnreceivedTick[r]
<1>1. /\ spokeConnected' = spokeConnected
      /\ \/ UNCHANGED <<stillConnected, deadTick>>
         \/ /\ stillConnected' = [stillConnected EXCEPT ![p] = StillConnected(p, f)]
            /\ deadTick' = [deadTick EXCEPT ![p] = DeadTicks(p, f)]
  BY DEF SpokeReceives, viewVars
<1>2. /\ UNCHANGED gameFlags \/ \E queues : gameFlags' = [gameFlags EXCEPT ![p] = queues]
      /\ UNCHANGED smallestUnreceivedTick
         \/ \E t : smallestUnreceivedTick' = [smallestUnreceivedTick EXCEPT ![p] = t]
  <2>1. CASE UNCHANGED receivedVars
    BY <2>1 DEF receivedVars
  <2>2. CASE ~ UNCHANGED receivedVars
    <3>1. \E acked : ReceiveTicks(p, f, acked)
      BY <2>2 DEF SpokeReceives
    <3>2. PICK acked : ReceiveTicks(p, f, acked)
      BY <3>1
    <3>3. \/ ReceiveNoFlags(p, f, acked)
          \/ \E start, stop : ReceiveFlags(p, f, start, stop)
      BY <2>2, <3>2 DEF ReceiveTicks
    <3>4. CASE ReceiveNoFlags(p, f, acked)
      BY <3>4 DEF ReceiveNoFlags
    <3>5. ASSUME NEW start, NEW stop, ReceiveFlags(p, f, start, stop)
          PROVE  /\ \E queues : gameFlags' = [gameFlags EXCEPT ![p] = queues]
                 /\ \E t : smallestUnreceivedTick' = [smallestUnreceivedTick EXCEPT ![p] = t]
      BY <2>2, <3>5 DEF ReceiveFlags, receivedVars
    <3> QED BY <3>3, <3>4, <3>5
  <2> QED BY <2>1, <2>2
<1> QED BY <1>1, <1>2 DEF SpokesSound

LEMMA ReceiptDecides ==
  ASSUME GameInvariant, SpokesSound', LockstepInvariant, UNCHANGED <<hubVars, madeUp>>,
         OnlyTakenFromSpokes, NEW p \in Players, NEW k \in DOMAIN toSpoke[p],
         SpokeReceives(p, toSpoke[p][k])
  PROVE  LockstepInvariant'
<1> DEFINE f == toSpoke[p][k]
<1>1. FrameToSpokeSound(p, f) /\ FrameDecided(p, f)
  BY DEF GameInvariant, WiresSound, LockstepInvariant, WiresDecided
<1>2. HubRemembers' /\ WiresDecided'
  BY HubStillRemembers, WiresStayDecided DEF LockstepInvariant
<1> HIDE DEF f
<1>3. SpokeReceives(p, f) /\ SpokesSound /\ SpokesDecided
  BY DEF f, GameInvariant, LockstepInvariant
<1>4. /\ spokeConnected' = spokeConnected
      /\ deadTick' = [r \in Players |-> deadTick'[r]]
      /\ \/ stillConnected'[p] = stillConnected[p] /\ deadTick'[p] = deadTick[p]
         \/ stillConnected'[p] = StillConnected(p, f) /\ deadTick'[p] = DeadTicks(p, f)
      /\ \A r \in Players \ {p} :
           /\ stillConnected'[r] = stillConnected[r] /\ deadTick'[r] = deadTick[r]
           /\ gameFlags'[r] = gameFlags[r] /\ smallestUnreceivedTick'[r] = smallestUnreceivedTick[r]
  BY <1>3, OthersStay DEF SpokesDecided
<1>5. netDeadTick' = netDeadTick
  BY DEF hubVars, playerVars
<1>6. ASSUME NEW r \in Players PROVE DatesDeaths(r)'
  <2>1. DatesDeaths(r)
    BY <1>3 DEF SpokesDecided
  <2>2. CASE stillConnected'[r] = stillConnected[r] /\ deadTick'[r] = deadTick[r]
    BY <1>5, <2>1, <2>2 DEF DatesDeaths
  <2>3. CASE r = p /\ stillConnected'[p] = StillConnected(p, f) /\ deadTick'[p] = DeadTicks(p, f)
    <3>1. \A q \in InGame : q \notin StillConnected(p, f) => DeadTicks(p, f)[q] = netDeadTick[q]
      BY <1>1, <1>3, <2>1, <2>3, DeathsTold
    <3> QED BY <1>5, <2>3, <3>1 DEF DatesDeaths
  <2> QED BY <1>4, <2>2, <2>3
<1>7. ASSUME NEW r \in InGame, InCompany(r)', NEW q \in InGame PROVE Plays(r, q)'
  <2>1. r \in Players /\ q \in Players
    BY DEF InGame
  <2>2. stillConnected'[r] \subseteq stillConnected[r]
    BY <1>4, <2>1 DEF StillConnected
  <2>3. \A x \in InGame : Plays(r, x)
    BY <1>3, <1>7, <2>2 DEF SpokesDecided, InCompany
  <2>4. CASE r = p
    <3>1. DatesDeaths(p)
      BY <1>3 DEF SpokesDecided
    <3> QED BY <1>1, <1>3, <1>7, <2>3, <2>4, <3>1, ReceiptPlays
  <2>5. CASE r # p
    <3>1. /\ gameFlags'[r] = gameFlags[r] /\ smallestUnreceivedTick'[r] = smallestUnreceivedTick[r]
          /\ spokeConnected' = spokeConnected
      BY <1>4, <2>1, <2>5
    <3>2. \A t : Decided(q, t)' = Decided(q, t)
      BY DEF hubVars, playerVars, Decided
    <3>3. Plays(r, q)
      BY <2>3
    <3> QED BY <3>1, <3>2, <3>3 DEF Plays
  <2> QED BY <2>4, <2>5
<1>8. spokeConnected' = [r \in Players |-> spokeConnected'[r]]
  BY <1>3, <1>4 DEF SpokesDecided
<1> QED BY <1>2, <1>4, <1>6, <1>7, <1>8 DEF LockstepInvariant, SpokesDecided

LEMMA NothingDecides ==
  ASSUME LockstepInvariant, SpokesSound, SpokesSound', UNCHANGED <<hubVars, spokeVars, madeUp>>,
         OnlyTakenFromSpokes
  PROVE  LockstepInvariant'
<1>1. /\ UNCHANGED <<hubVars, madeUp, smallestUnreceivedTick, stillConnected, deadTick>>
      /\ spokeConnected' = spokeConnected /\ gameFlags' = gameFlags
  BY DEF spokeVars, viewVars, receivedVars
<1>2. OnlyExtends
  BY <1>1 DEF OnlyExtends, LockstepInvariant, SpokesDecided
<1> QED BY <1>2, ExtendingDecides

-----------------------------------------------------------------------------
(* Every step of the game.                                                   *)

LEMMA HubActs ==
  ASSUME ~Standalone, GameInvariant, LockstepInvariant, [Next]_hubVars, HubAdvances, RemembersMadeUp,
         UNCHANGED spokeVars, NEW large, NEW asks, HubWires(large, asks)
  PROVE  LockstepInvariant'
<1>1. HubInvariant /\ HubInvariant' /\ HubRemembers
  BY DEF GameInvariant, HubAdvances, LockstepInvariant
<1>2. HubMoves
  BY <1>1, EveryStepMoves
<1>3. HubRemembers' /\ SettledStands
  BY <1>1, <1>2, MovesKeepSettled
<1> QED BY <1>3, HubStepDecides

LEMMA HubStepActs ==
  ASSUME ~Standalone, GameInvariant, LockstepInvariant, [Next]_hubVars, HubAdvances,
         NEW ACTION Step, HubStep(Step)
  PROVE  LockstepInvariant'
<1>1. \E large : \E asks : HubWires(large, asks)
  BY Zenon DEF HubStep
<1>2. PICK large : \E asks : HubWires(large, asks)
  BY <1>1
<1>3. PICK asks : HubWires(large, asks)
  BY <1>2
<1>4. UNCHANGED spokeVars /\ RemembersMadeUp
  BY DEF HubStep
<1> QED BY <1>3, <1>4, HubActs

LEMMA HubTicksDecide ==
  ASSUME ~Standalone, GameInvariant, LockstepInvariant, HubTicks PROVE LockstepInvariant'
<1>1. HubStep(HubTick)
  BY DEF HubTicks
<1>2. HubTick
  BY <1>1 DEF HubStep
<1>3. HubAdvances
  BY <1>2, TickAdvances DEF GameInvariant
<1>4. [Next]_hubVars
  BY <1>2 DEF Next
<1> QED BY <1>1, <1>3, <1>4, HubStepActs

LEMMA HubLeavesDecides ==
  ASSUME ~Standalone, GameInvariant, LockstepInvariant, HubLeaves PROVE LockstepInvariant'
<1>1. HubCleanupEnd \/ \E graceful \in BOOLEAN, t \in PostGameTicks : HubCleanup(graceful, t)
  BY DEF HubLeaves
<1>2. HubAdvances /\ ~HubSends
  BY <1>1, OtherHubStepsAdvance DEF GameInvariant
<1>3. UNCHANGED <<spokeVars, toSpoke, madeUp>>
  BY DEF HubLeaves, wires
<1>4. HubWires({}, << >>)
  BY <1>2, <1>3 DEF HubWires
<1>5. RemembersMadeUp
  <2>1. playerReflectedFlags' = playerReflectedFlags
    BY <1>1 DEF HubCleanup, HubCleanupEnd, queueVars
  <2> QED BY <1>3, <2>1 DEF LockstepInvariant, HubRemembers, RemembersMadeUp
<1>6. [Next]_hubVars
  BY <1>1 DEF Next
<1> QED BY <1>2, <1>3, <1>4, <1>5, <1>6, HubActs

LEMMA HubHandlesDecides ==
  ASSUME ~Standalone, GameInvariant, LockstepInvariant, NEW p \in Players,
         NEW k \in 1 .. Len(toHub[p]), HubStep(HubHandles(p, toHub[p][k]))
  PROVE  LockstepInvariant'
<1>1. HubHandles(p, toHub[p][k])
  BY DEF HubStep
<1>2. Next /\ HubAdvances
  BY <1>1, FrameOnTheWire, HubHandlesSoundFrames
<1> QED BY <1>2, HubStepActs

LEMMA HubReceivesDecides ==
  ASSUME ~Standalone, GameInvariant, GameInvariant', LockstepInvariant, NEW p \in Players,
         HubReceivesRemote(p) \/ HubReceivesLocal(p)
  PROVE  LockstepInvariant'
<1>1. CASE HubReceivesRemote(p)
  BY <1>1, HubHandlesDecides DEF HubReceivesRemote
<1>2. CASE HubReceivesLocal(p)
  <2>1. toHub[p] # << >> /\ IsSequence(toHub[p])
    BY <1>2 DEF HubReceivesLocal, GameInvariant, WiresSound
  <2>2. 1 \in 1 .. Len(toHub[p]) /\ Head(toHub[p]) = toHub[p][1]
    BY <2>1, FirstIsHead
  <2>3. CASE HubIgnores(p, Head(toHub[p]))
    <3>1. UNCHANGED <<hubVars, spokeVars, madeUp>> /\ UNCHANGED toSpoke
      BY <1>2, <2>3 DEF HubReceivesLocal
    <3>2. OnlyTakenFromSpokes
      BY <3>1 DEF OnlyTakenFromSpokes
    <3> QED BY <3>1, <3>2, NothingDecides DEF GameInvariant
  <2>4. CASE ~HubIgnores(p, Head(toHub[p]))
    <3>1. HubStep(HubHandles(p, toHub[p][1]))
      BY <1>2, <2>2, <2>4 DEF HubReceivesLocal
    <3> QED BY <2>2, <3>1, HubHandlesDecides
  <2> QED BY <2>3, <2>4
<1> QED BY <1>1, <1>2

LEMMA SpokeReceivesDecides ==
  ASSUME GameInvariant, GameInvariant', LockstepInvariant, NEW p \in Players,
         SpokeReceivesRemote(p) \/ SpokeReceivesLocal(p)
  PROVE  LockstepInvariant'
<1>1. /\ IsSequence(toSpoke[p]) /\ DOMAIN toSpoke[p] = 1 .. Len(toSpoke[p])
      /\ toSpoke = [r \in Players |-> toSpoke[r]] /\ SpokesSound /\ SpokesSound'
  BY SequenceLength DEF GameInvariant, WiresSound
<1>2. CASE SpokeReceivesRemote(p)
  <2>1. PICK k \in DOMAIN toSpoke[p] : SpokeReceives(p, toSpoke[p][k])
    BY <1>1, <1>2 DEF SpokeReceivesRemote
  <2>2. UNCHANGED <<hubVars, madeUp>> /\ UNCHANGED toSpoke
    BY <1>2 DEF SpokeReceivesRemote, wires
  <2>3. OnlyTakenFromSpokes
    BY <2>2 DEF OnlyTakenFromSpokes
  <2> QED BY <1>1, <2>1, <2>2, <2>3, ReceiptDecides
<1>3. CASE SpokeReceivesLocal(p)
  <2>1. UNCHANGED <<hubVars, madeUp>> /\ toSpoke[p] # << >> /\ toSpoke' = [toSpoke EXCEPT ![p] = << >>]
    BY <1>3 DEF SpokeReceivesLocal
  <2>2. 1 \in DOMAIN toSpoke[p] /\ Head(toSpoke[p]) = toSpoke[p][1]
    BY <1>1, <2>1, FirstIsHead
  <2>3. OnlyTakenFromSpokes
    BY <1>1, <2>1 DEF OnlyTakenFromSpokes
  <2>4. SpokeReceives(p, toSpoke[p][1]) \/ UNCHANGED spokeVars
    BY <1>3, <2>2 DEF SpokeReceivesLocal
  <2>5. CASE UNCHANGED spokeVars
    <3>1. UNCHANGED <<hubVars, spokeVars, madeUp>>
      BY <2>1, <2>5
    <3> QED BY <1>1, <2>3, <3>1, NothingDecides
  <2> QED BY <1>1, <2>1, <2>2, <2>3, <2>4, <2>5, ReceiptDecides
<1> QED BY <1>2, <1>3

LEMMA SpokeStepDecides ==
  ASSUME GameInvariant, GameInvariant', LockstepInvariant, NEW p \in Players,
         SpokeTicks(p) \/ SpokeSilenced(p) \/ MainThread(p) \/ SpokeLeaves(p)
  PROVE  LockstepInvariant'
<1>1. SpokesSound /\ SpokesSound' /\ spokeConnected = [r \in Players |-> spokeConnected[r]]
  BY DEF GameInvariant, LockstepInvariant, SpokesDecided
<1>2. OnlyExtends /\ UNCHANGED toSpoke
  BY <1>1, SpokeStepExtends
<1>3. OnlyTakenFromSpokes
  BY <1>2 DEF OnlyTakenFromSpokes
<1> QED BY <1>1, <1>2, <1>3, ExtendingDecides

LEMMA LockstepStep ==
  ASSUME ~Standalone, GameInvariant, LockstepInvariant, [GameNext]_gameVars
  PROVE  LockstepInvariant'
<1>1. GameInvariant'
  BY GameStep
<1>2. CASE HubTicks
  BY <1>2, HubTicksDecide
<1>3. CASE HubLeaves
  BY <1>3, HubLeavesDecides
<1>4. CASE \E p \in Remote : HubReceivesRemote(p) \/ SpokeReceivesRemote(p)
  <2>1. PICK p \in Players : HubReceivesRemote(p) \/ SpokeReceivesRemote(p)
    BY <1>4 DEF Remote
  <2> QED BY <1>1, <2>1, HubReceivesDecides, SpokeReceivesDecides
<1>5. CASE \E p \in Local : HubReceivesLocal(p) \/ SpokeReceivesLocal(p)
  <2>1. PICK p \in Players : HubReceivesLocal(p) \/ SpokeReceivesLocal(p)
    BY <1>5 DEF Local
  <2> QED BY <1>1, <2>1, HubReceivesDecides, SpokeReceivesDecides
<1>6. CASE \E p \in Players : SpokeTicks(p) \/ SpokeSilenced(p) \/ MainThread(p) \/ SpokeLeaves(p)
  BY <1>1, <1>6, SpokeStepDecides
<1>7. CASE UNCHANGED gameVars
  <2>1. UNCHANGED <<hubVars, spokeVars, madeUp>> /\ UNCHANGED toSpoke
    BY <1>7 DEF gameVars, wires
  <2>2. OnlyTakenFromSpokes
    BY <2>1 DEF OnlyTakenFromSpokes
  <2> QED BY <1>1, <2>1, <2>2, NothingDecides DEF GameInvariant
<1> QED BY <1>2, <1>3, <1>4, <1>5, <1>6, <1>7 DEF GameNext

LEMMA LockstepInit == ASSUME ~Standalone, GameInit PROVE LockstepInvariant
<1>1. /\ madeUp = [t \in Ticks |-> {}] /\ toSpoke = [p \in Players |-> << >>]
      /\ connected = InGame /\ SpokeInit(connected) /\ Init
  BY DEF GameInit, InGame
<1>2. /\ spokeConnected = [p \in Players |-> TRUE]
      /\ smallestUnreceivedTick = [p \in Players |-> FirstTick]
      /\ stillConnected = [p \in Players |-> connected]
      /\ deadTick = [p \in Players |-> [q \in Players |-> FirstTick - 1]]
      /\ gameFlags = [p \in Players |-> [q \in Players |-> << >>]]
  BY <1>1 DEF SpokeInit
<1>3. HubRemembers
  <2>1. playerReflectedFlags = [t \in Ticks |-> {}]
    BY <1>1 DEF Init
  <2> QED BY <1>1, <2>1 DEF HubRemembers
<1>4. WiresDecided
  BY <1>1, EmptySequence DEF WiresDecided
<1>5. ASSUME NEW p \in InGame, NEW q \in InGame PROVE Plays(p, q)
  <2>1. p \in Players /\ q \in Players
    BY DEF InGame
  <2>2. gameFlags[p][q] = << >> /\ Len(gameFlags[p][q]) = 0 /\ smallestUnreceivedTick[p] = FirstTick
    BY <1>2, <2>1
  <2>3. FirstTick \in Int /\ StartingTick \in Int /\ FirstTick <= StartingTick
    BY Constants, HubConstants DEF FirstTick
  <2>4. Larger(FirstTick, StartingTick) = StartingTick /\ StartingTick + 0 = StartingTick
    BY <2>3 DEF Larger
  <2>5. \A t \in StartingTick .. FirstTick - 1 : FALSE
    BY <2>3
  <2>6. StartingTick <= StartingTick
    BY <2>3
  <2> HIDE DEF FirstTick
  <2> QED BY <2>2, <2>4, <2>5, <2>6 DEF Plays
<1>6. \A p \in Players : DatesDeaths(p)
  BY <1>1, <1>2 DEF DatesDeaths
<1> QED BY <1>2, <1>3, <1>4, <1>5, <1>6 DEF LockstepInvariant, SpokesDecided

-----------------------------------------------------------------------------

\* Every frame the hub has on its way, old or new, holds what is settled, and every machine that
\* knows of somebody else in the game has in its action queues what is settled for every tick it
\* has received: what the hub made up for laggards replaces what they did everywhere or nowhere,
\* and the dead are dead from the same tick on (send_packets, lines 1370-1630 of the hub, and
\* spoke_received_game_data_packet_v1, lines 391-642 of the spoke).
THEOREM GameStaysInLockstep ==
  ASSUME ~Standalone PROVE GameSpec => [](GameInvariant /\ LockstepInvariant)
<1>1. GameInit => GameInvariant /\ LockstepInvariant
  BY GameInitInvariant, LockstepInit
<1>2. GameInvariant /\ LockstepInvariant /\ [GameNext]_gameVars => GameInvariant' /\ LockstepInvariant'
  BY GameStep, LockstepStep
<1> QED BY <1>1, <1>2, PTL DEF GameSpec

\* Machines that know of each other play the same flags of every player in the same tick: what
\* each has received is complete at the hub and is what the hub has settled, whatever is lost,
\* delayed, reordered or repeated, whoever lags or drops out, however short the queues.
THEOREM GameIsInLockstep == ASSUME ~Standalone PROVE GameSpec => []LockstepInCompany
<1>1. GameInvariant /\ LockstepInvariant => LockstepInCompany
  <2> SUFFICES ASSUME GameInvariant, LockstepInvariant, NEW p \in InGame, InCompany(p),
                      NEW q \in InGame, NEW t \in StartingTick .. smallestUnreceivedTick[p] - 1
               PROVE  /\ t < smallestIncompleteTick
                      /\ gameFlags[p][q][t - StartingTick + 1] = Decided(q, t)
    BY DEF LockstepInCompany, PlaysWhatIsDecided
  <2>1. Plays(p, q)
    BY DEF LockstepInvariant, SpokesDecided
  <2>2. /\ smallestUnreceivedTick[p] \in Int /\ smallestUnreceivedTick[p] <= smallestUnsentTick
        /\ smallestUnsentTick \in Int /\ smallestIncompleteTick \in Int
        /\ smallestUnsentTick <= smallestIncompleteTick /\ StartingTick \in Int
    BY Constants DEF GameInvariant, HubInvariant, TypeOK, QueuesLineUp, SpokesSound, InGame
  <2>3. t < smallestIncompleteTick
    BY <2>2
  <2> QED BY <2>1, <2>3 DEF Plays
<1> QED BY <1>1, GameStaysInLockstep, PTL
=============================================================================
