----------------------------- MODULE TradeLog -----------------------------
(***************************************************************************)
(* The last trades of one symbol (include/trade_log.hpp).  Each operation  *)
(* is one critical section of the log's mutex, so it is a function of the  *)
(* deque; the threads that call it are in the modules that use the log.    *)
(***************************************************************************)
EXTENDS Naturals, Sequences

CONSTANT LogDepth    \* max_per_symbol_

ASSUME LogAssumption == LogDepth \in Nat

\* Seeded fault: the deque grows by one entry too many.
recordOneMore(log, trade) ==
  IF Len(log) > LogDepth THEN Tail(Append(log, trade)) ELSE Append(log, trade)

\* The oldest entry goes when there are too many.
record(log, trade) ==
  IF Len(log) + 1 > LogDepth THEN Tail(Append(log, trade)) ELSE Append(log, trade)

\* The newest count entries, oldest first.
recent(log, count) ==
  LET n == IF count < Len(log) THEN count ELSE Len(log)
  IN  SubSeq(log, Len(log) - n + 1, Len(log))
=============================================================================
