---------------------------- MODULE MCStarTiming ----------------------------
(* Values a configuration file cannot write down.                           *)
EXTENDS StarTiming

\* Every adjustment that offsets between two players can come to.
EveryOffset == (FirstTick - Horizon .. Horizon - FirstTick) \ {0}
=============================================================================
