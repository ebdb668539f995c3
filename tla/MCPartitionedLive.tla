------------------------- MODULE MCPartitionedLive -------------------------
EXTENDS PartitionedEngine, TLC

CONSTANTS c1, c2

MCWaitAndStop == c1 :> {"submit"} @@ c2 :> {"waitUntilIdle", "shutdown"}
MCOneShard == [s \in Symbol |-> 1]
=============================================================================
