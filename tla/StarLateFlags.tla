---------------------------- MODULE StarLateFlags ----------------------------
(***************************************************************************)
(* The late flags of the hub (Network/network_star_hub.cpp).               *)
(*                                                                         *)
(* While the hub makes up the flags of a laggard, what he really did is    *)
(* still on its way.  When it comes, it is too late for its ticks; the hub *)
(* puts it into a second queue, sLateFlagsQueues, and makes the flags of   *)
(* later ticks out of that: each takes the older half of the queue.        *)
(*                                                                         *)
(* Every action is one of StarHub with what the same code does to the      *)
(* queues of late flags.  Of their contents only the ticks are kept: the   *)
(* write tick says up to where the flags of a player have come, for those  *)
(* that were skipped the hub repeats the last ones.                        *)
(***************************************************************************)
EXTENDS StarHub

CONSTANT
  MostFlags         \* flags in one packet: the size of the spokes' outgoing queue, 15

ASSUME LateConstants == MostFlags \in Nat \ {0}

VARIABLES
  lateReadTick,     \* sLateFlagsQueues[i].getReadTick()
  lateWriteTick,    \* sLateFlagsQueues[i].getWriteTick()
  lateFailures      \* lines of the asserts on these queues that failed

lateQueueVars == <<lateReadTick, lateWriteTick>>
lateVars == <<hubVars, lateQueueVars, lateFailures>>

LateInit ==
  /\ Init
  /\ lateReadTick = [p \in Players |-> FirstTick]
  /\ lateWriteTick = [p \in Players |-> FirstTick]
  /\ lateFailures = {}

-----------------------------------------------------------------------------

\* Ticks up to flagsWriteTick that p's packet, which begins later, will never bring.
Skipped(p, start) ==
  IF start > lateWriteTick[p] THEN flagsWriteTick[p] - lateWriteTick[p] ELSE 0

\* Flags of ticks that are made up already are not told from new ones.
FaultyLate(p, write, end) == 0

\* Flags of the packet for ticks from write on that the hub has already made up.
Late(p, write, end) == Larger(Smaller(flagsWriteTick[p], end) - write, 0)

\* Late flags stay when newer ones come.
FaultyDiscarded(read, write, new) == read

\* The read tick once new flags, of ticks that were still open, have come.
Discarded(read, write, new) == IF new > 0 THEN write ELSE read

\* The rest of hub_received_game_data_packet_v1: skipped ticks push out the oldest flags;
\* flags that are new are enqueued here as well, and then the queue is emptied.
LateReceived(p, start, end) ==
  LET skipped == Skipped(p, start)
      read    == lateReadTick[p] + skipped
      write   == lateWriteTick[p] + skipped
      late    == Late(p, write, end)
      new     == flagsWriteTick'[p] - flagsWriteTick[p]
      fails   == {l \in {815, 826, 835, 844, 851} :
        \/ l = 815 /\ skipped > 0 /\ write - read >= QueueSize
        \/ l = 826 /\ flagsWriteTick[p] < write
        \/ l = 835 /\ late > 0 /\ write + late - read > QueueSize
        \/ l = 844 /\ new > 0 /\ write + late # flagsWriteTick[p]
        \/ l = 851 /\ new > 0 /\ write + late + new - read > QueueSize}
  IN  IF start = end \/ start > flagsWriteTick[p] THEN UNCHANGED <<lateQueueVars, lateFailures>>
      ELSE /\ lateFailures' = fails
           /\ lateWriteTick' = [lateWriteTick EXCEPT ![p] = write + late + new]
           /\ lateReadTick' = [lateReadTick EXCEPT ![p] =
                                 Discarded(read, write + late + new, new)]

\* Flags of a queue of this size that go into one tick: those before the midpoint, and it.
Used(size) == IF size > 0 THEN (size \div 2) + 1 ELSE 0

\* A failed assert ends the program.
NothingFailed == lateFailures = {}

LatePacket(p, ack, start, end) ==
  /\ NothingFailed
  /\ end <= start + MostFlags
  /\ SpokeSends(p, ack, start, end)
  /\ LateReceived(p, start, end)

\* make_player_netdead books the ticks the dead player still owes.
LateNetDeath ==
  /\ NothingFailed
  /\ BookNetDeath
  /\ lateReadTick' = [lateReadTick EXCEPT ![dying] =
       Discarded(@, lateWriteTick[dying], dispositionWriteTick - flagsWriteTick[dying])]
  /\ UNCHANGED <<lateWriteTick, lateFailures>>

\* make_up_flags_for_first_incomplete_tick.
LateTickEnd ==
  /\ NothingFailed
  /\ HubTickEnd
  /\ lateReadTick' = [p \in Players |->
       IF flagsWriteTick'[p] > flagsWriteTick[p] /\ p \in laggingPlayers'
       THEN lateReadTick[p] + Used(lateWriteTick[p] - lateReadTick[p])
       ELSE lateReadTick[p]]
  /\ UNCHANGED <<lateWriteTick, lateFailures>>

\* The steps of the hub that touch no late flags.
LateElsewhere ==
  /\ NothingFailed
  /\ \/ \E p \in Players : ReceiveIdentification(p)
     \/ HubTickBegin \/ ScanSurvivors \/ ScanNetDead
     \/ \E graceful \in BOOLEAN, t \in PostGameTicks : HubCleanup(graceful, t)
     \/ HubCleanupEnd
  /\ UNCHANGED <<lateQueueVars, lateFailures>>

LateNext ==
  \/ \E p \in Players, ack, start, end \in FirstTick .. Horizon : LatePacket(p, ack, start, end)
  \/ LateNetDeath \/ LateTickEnd \/ LateElsewhere

LateSpec == LateInit /\ [][LateNext]_lateVars

-----------------------------------------------------------------------------
(* Properties                                                               *)

\* The asserts on lines 826 and 844: the late flags never overtake the flags the hub works
\* with, and have caught up with them when new ones come.
LateFlagsFollow == lateFailures \cap {826, 844} = {}

\* "hold late flags we've received from lagging players" (line 272): whoever has late flags,
\* or owes some, counts as lagging, so that whatever he sends in time ends it.
LateFlagsAreLaggards ==
  \A p \in connected :
    /\ lateReadTick[p] <= lateWriteTick[p] /\ lateWriteTick[p] <= flagsWriteTick[p]
    /\ lateReadTick[p] < flagsWriteTick[p] => p \in laggingPlayers

\* The comment on lines 833-834, "we consume these faster than we enqueue them": the queue
\* of late flags has room for all that come (enqueue asserts it, lines 815, 835 and 851).
LateFlagsFit == lateFailures \cap {815, 835, 851} = {}
=============================================================================
