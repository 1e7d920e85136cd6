---------------------------- MODULE StarTopology ----------------------------
(***************************************************************************)
(* What the hub and the spokes of the star protocol share: the players of  *)
(* the topology, the ticks of a level and helpers on ticks.                *)
(***************************************************************************)
EXTENDS Integers, FiniteSets

CONSTANTS
  NumPlayers,    \* players of the topology, connected or not
  LocalPlayer,   \* sLocalPlayerIndex of the gatherer, NONE with a standalone hub
  StartingTick,  \* sSmallestRealGameTick
  PregameTicks,  \* kPregameTicks
  Horizon        \* bound: no spoke makes flags for a tick >= Horizon

NONE == -1
Players == 0 .. NumPlayers - 1
Standalone == LocalPlayer = NONE
FirstTick == StartingTick - PregameTicks
Ticks == FirstTick .. Horizon - 1

Smaller(a, b) == IF a <= b THEN a ELSE b
Larger(a, b) == IF a >= b THEN a ELSE b
=============================================================================
