----------------------------- MODULE StarTiming ------------------------------
(***************************************************************************)
(* The timing adjustments of the hub (Network/network_star_hub.cpp) in a   *)
(* networked game.                                                         *)
(*                                                                         *)
(* For every tick it hears of from a player the hub notes how far the      *)
(* reference player, its own, has come by then.  When a window of such     *)
(* offsets is full, one of the smaller ones says how many ticks the player *)
(* should wait, or hurry if it is negative.  The hub asks him to in every  *)
(* packet until it is sure that he has seen it.                            *)
(*                                                                         *)
(* Every step is one of StarGame, which lets the hub ask for anything,     *)
(* with the hub asking for what its windows say.                           *)
(***************************************************************************)
EXTENDS StarGame

CONSTANTS
  InGameWindowSize,   \* mInGameWindowSize
  PregameNthElement,  \* mPregameNthElement
  InGameNthElement    \* mInGameNthElement

ASSUME TimingConstants ==
  /\ InGameWindowSize \in Nat \ {0}
  /\ PregameNthElement \in 0 .. PregameWindowSize - 1
  /\ InGameNthElement \in 0 .. InGameWindowSize - 1
  /\ (FirstTick - Horizon .. Horizon - FirstTick) \ {0} \subseteq Adjustments

VARIABLES
  smallestUnheardTick,          \* mSmallestUnheardTick
  windowSize,                   \* mNthElementFinder.window_size()
  arrivalOffsets,               \* what mNthElementFinder holds, the oldest first
  outstandingTimingAdjustment,  \* mOutstandingTimingAdjustment
  timingAdjustmentTick          \* mTimingAdjustmentTick

windowVars == <<smallestUnheardTick, windowSize, arrivalOffsets>>
askVars == <<outstandingTimingAdjustment, timingAdjustmentTick>>
timedVars == <<gameVars, windowVars, askVars>>

TimedInit ==
  /\ GameInit
  /\ smallestUnheardTick = [p \in Players |-> FirstTick]
  /\ windowSize = [p \in Players |-> PregameWindowSize]
  /\ arrivalOffsets = [p \in Players |-> << >>]
  /\ outstandingTimingAdjustment = [p \in Players |-> 0]
  /\ timingAdjustmentTick = [p \in Players |-> 0]

-----------------------------------------------------------------------------

\* Seen once p has acknowledged the tick before the one that was open when he was asked.
FaultySeen(p, ack) ==
  outstandingTimingAdjustment[p] # 0 /\ timingAdjustmentTick[p] <= ack

\* p acknowledges a tick that was not complete when he was asked (line 1005).
Seen(p, ack) ==
  outstandingTimingAdjustment[p] # 0 /\ timingAdjustmentTick[p] < ack

\* The last elements of a window that holds no more than size of them.
Latest(offsets, size) ==
  SubSeq(offsets, Larger(Len(offsets) - size, 0) + 1, Len(offsets))

\* nth_smallest_element, counted from 0.
NthSmallest(offsets, n) ==
  LET Below(x) == Cardinality({k \in DOMAIN offsets : offsets[k] < x})
      UpTo(x)  == Cardinality({k \in DOMAIN offsets : offsets[k] <= x})
  IN  CHOOSE x \in {offsets[k] : k \in DOMAIN offsets} : Below(x) <= n /\ n < UpTo(x)

\* The end of hub_received_game_data_packet_v1: the offsets of the ticks heard for the first
\* time, the transition from pregame to game, and the question whether to ask.
Hears(p, ack, start, end) ==
  LET seen    == ack >= smallestUnacknowledgedTick[p] /\ Seen(p, ack)
      asked   == IF seen THEN 0 ELSE outstandingTimingAdjustment[p]
      window  == IF seen THEN << >> ELSE arrivalOffsets[p]
      unheard == smallestUnheardTick[p]
      next    == Larger(unheard, end)
      behind(k) == IF p = referencePlayer THEN 0
                   ELSE unheard + k - 1 - smallestUnheardTick[referencePlayer]
      heard   == Latest(window \o [k \in 1 .. next - unheard |-> behind(k)], windowSize[p])
      starts  == next >= StartingTick /\ windowSize[p] # InGameWindowSize
      size    == IF starts THEN InGameWindowSize ELSE windowSize[p]
      offsets == IF starts THEN << >> ELSE heard
      asks    == asked = 0 /\ Len(offsets) = size
      nth     == IF next >= StartingTick THEN InGameNthElement ELSE PregameNthElement
      ask     == IF asks THEN NthSmallest(offsets, nth) ELSE asked
  IN  IF start = end \/ start > flagsWriteTick[p]
      THEN /\ outstandingTimingAdjustment' = [outstandingTimingAdjustment EXCEPT ![p] = asked]
           /\ arrivalOffsets' = [arrivalOffsets EXCEPT ![p] = window]
           /\ UNCHANGED <<smallestUnheardTick, windowSize, timingAdjustmentTick>>
      ELSE /\ outstandingTimingAdjustment' = [outstandingTimingAdjustment EXCEPT ![p] = ask]
           /\ timingAdjustmentTick' = [timingAdjustmentTick EXCEPT ![p] =
                                         IF asks /\ ask # 0 THEN smallestIncompleteTick ELSE @]
           /\ smallestUnheardTick' = [smallestUnheardTick EXCEPT ![p] = next]
           /\ windowSize' = [windowSize EXCEPT ![p] = size]
           /\ arrivalOffsets' = [arrivalOffsets EXCEPT ![p] = offsets]

\* What the hub asks for is what its packets say (line 1370).
AsksAreSent ==
  HubSends => \A p \in connected' \cap addressKnown' :
    toSpoke'[p][Len(toSpoke'[p])].adjustment = outstandingTimingAdjustment'[p]

HearsFrame(p, f) ==
  /\ IF f.type = "game data" THEN Hears(p, f.ack, f.start, f.end)
     ELSE UNCHANGED <<windowVars, askVars>>
  /\ AsksAreSent

TimedReceivesRemote(p) ==
  \E k \in 1 .. Len(toHub[p]) :
    /\ NothingLocal
    /\ HubStep(HubHandles(p, toHub[p][k]))
    /\ UNCHANGED toHub
    /\ HearsFrame(p, toHub[p][k])

TimedReceivesLocal(p) ==
  /\ HubReceivesLocal(p)
  /\ IF HubIgnores(p, Head(toHub[p])) THEN UNCHANGED <<windowVars, askVars>>
     ELSE HearsFrame(p, Head(toHub[p]))

\* A dead player is booked as having acknowledged all that is complete.
TimedTicks ==
  /\ HubTicks
  /\ IF dying # NONE /\ dying' # dying /\ Seen(dying, smallestIncompleteTick)
     THEN /\ outstandingTimingAdjustment' = [outstandingTimingAdjustment EXCEPT ![dying] = 0]
          /\ arrivalOffsets' = [arrivalOffsets EXCEPT ![dying] = << >>]
          /\ UNCHANGED <<smallestUnheardTick, windowSize, timingAdjustmentTick>>
     ELSE UNCHANGED <<windowVars, askVars>>
  /\ AsksAreSent

TimedElsewhere ==
  /\ \/ HubLeaves
     \/ \E p \in Remote : SpokeReceivesRemote(p)
     \/ \E p \in Local : SpokeReceivesLocal(p)
     \/ \E p \in Players : SpokeTicks(p) \/ SpokeSilenced(p) \/ MainThread(p) \/ SpokeLeaves(p)
  /\ UNCHANGED <<windowVars, askVars>>

TimedNext ==
  \/ \E p \in Remote : TimedReceivesRemote(p)
  \/ \E p \in Local : TimedReceivesLocal(p)
  \/ TimedTicks
  \/ TimedElsewhere

TimedSpec == TimedInit /\ [][TimedNext]_timedVars

-----------------------------------------------------------------------------
(* Properties                                                               *)

\* "At that point we know he must have seen our message" (lines 214-220): when the hub stops
\* asking a player for an adjustment, his spoke has been asked for just that, as long as no
\* datagram overtakes another.
AsksAreSeen ==
  [][\A p \in connected' :
       outstandingTimingAdjustment[p] # 0
         /\ outstandingTimingAdjustment'[p] # outstandingTimingAdjustment[p]
       => requestedAdjustment[p] = outstandingTimingAdjustment[p]]_timedVars
=============================================================================
