--------------------------- MODULE MCPartitioned ---------------------------
EXTENDS PartitionedDemo, TLC

CONSTANTS c1, c2, m

\* In a free program c1 submits and waits for the engine to be idle, which c2
\* may keep busy or stop meanwhile; enqueue is the call of the demo.
MCFreeCalls ==
  c1 :> {"submit", "waitUntilIdle"} @@ c2 :> {"tryEnqueue", "shutdown"} @@ m :> {}
MCNoCalls == [c \in Client |-> {}]
MCPrograms == {"demo", "free"}
MCDemo == {"demo"}
MCOneShard == [s \in Symbol |-> 1]
MCTwoShards == [s \in Symbol |-> IF s = CHOOSE t \in Symbol : TRUE THEN 1 ELSE 2]
=============================================================================
