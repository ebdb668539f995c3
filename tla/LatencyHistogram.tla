-------------------------- MODULE LatencyHistogram --------------------------
(***************************************************************************)
(* AtomicLatencyHistogram (include/latency_histogram.hpp), filled by       *)
(* several owner threads at once without a lock, and read by a thread that *)
(* takes a snapshot meanwhile.  Every atomic access of record() and of     *)
(* snapshot() is a step; compare_exchange_weak may fail for no reason.     *)
(* The accesses are relaxed: that they take effect in program order is     *)
(* what the x86-64 build gives, not what the C++ standard promises.        *)
(*                                                                         *)
(* The code has 64 buckets for 64-bit values; here BucketCount buckets are *)
(* for values up to MaxValue, and as there the last bucket has no bound    *)
(* but MaxValue.                                                           *)
(***************************************************************************)
EXTENDS Naturals, FiniteSets, FiniteSetsExt, Functions, Sequences

CONSTANTS Thread, Latency,        \* the latencies that are recorded
          BucketCount, MaxValue,
          MaxRecords              \* bound: calls of record()

ASSUME HistogramAssumption ==
  /\ BucketCount \in Nat \ {0} /\ MaxValue \in Nat /\ MaxRecords \in Nat
  /\ Latency \subseteq 0..MaxValue /\ 2^(BucketCount - 1) <= MaxValue

VARIABLES buckets, count, total_ns, min_ns, max_ns,
          thread,      \* where each thread is, its value, and the expected value of its CAS
          reader,      \* the thread that takes a snapshot
          recorded,    \* history: calls of record() begun, by latency
          before       \* history: those that had ended when the snapshot began

vars == <<buckets, count, total_ns, min_ns, max_ns, thread, reader, recorded, before>>

Bucket == 0..(BucketCount - 1)
Steps == {"idle", "bucket", "count", "total", "load_min", "cas_min", "load_max", "cas_max"}
Total(calls) == MapThenSumSet(LAMBDA v : calls[v], Latency)
Recorded == Total(recorded)
Values == 0..MaxValue

\* A thread inside record(): value is the argument, current its last reading of
\* the extreme it is about to move.
Inside(at, value, current) == [at |-> at, value |-> value, current |-> current]

\* out is the snapshot so far; rank, next and cumulative are the locals of the
\* loop over the buckets.
NoSnapshot == [count |-> 0, min_ns |-> 0, max_ns |-> 0, percentile |-> 0]
Reading(at, out, rank, next, cumulative) ==
  [at |-> at, out |-> out, rank |-> rank, next |-> next, cumulative |-> cumulative]

TypeOK ==
  /\ buckets \in [Bucket -> 0..MaxRecords] /\ count \in 0..MaxRecords /\ total_ns \in Nat
  /\ min_ns \in Values /\ max_ns \in Values
  /\ thread \in [Thread -> [at : Steps, value : Values, current : Values]]
  /\ recorded \in [Latency -> 0..MaxRecords] /\ before \in [Latency -> 0..MaxRecords]
  /\ reader.at \in {"start", "min", "max", "rank", "bucket", "done"}

Init ==
  /\ buckets = [b \in Bucket |-> 0] /\ count = 0 /\ total_ns = 0
  /\ min_ns = MaxValue /\ max_ns = 0
  /\ thread = [t \in Thread |-> Inside("idle", 0, 0)]
  /\ recorded = [v \in Latency |-> 0] /\ before = recorded
  /\ reader = Reading("start", NoSnapshot, 0, 0, 0)
-----------------------------------------------------------------------------
\* bit_width: the number of bits of v.
bitWidth(v) == Min({w \in 0..v : v < 2^w})


bucketFor(value) ==
  IF value <= 1 THEN 0 ELSE Min({bitWidth(value - 1), BucketCount - 1})

bucketUpperBound(b) == IF b >= BucketCount - 1 THEN MaxValue ELSE 2^b

\* ceil(percentile * n), at least 1, for a percentile in thousandths.
rankOf(permille, n) == LET r == (permille * n + 999) \div 1000
                       IN  IF r = 0 THEN 1 ELSE r
-----------------------------------------------------------------------------
At(t, step) == thread[t].at = step
Move(t, step, current) ==
  thread' = [thread EXCEPT ![t] = Inside(step, thread[t].value, current)]
Goto(t, step) == Move(t, step, thread[t].current)

Call(t, v) ==
  /\ At(t, "idle") /\ Recorded < MaxRecords
  /\ thread' = [thread EXCEPT ![t] = Inside("bucket", v, 0)]
  /\ recorded' = [recorded EXCEPT ![v] = @ + 1]
  /\ UNCHANGED <<buckets, count, total_ns, min_ns, max_ns, reader, before>>

\* The three fetch_adds.
Add(t) ==
  /\ \/ /\ At(t, "bucket") /\ Goto(t, "count")
        /\ buckets' = [buckets EXCEPT ![bucketFor(thread[t].value)] = @ + 1]
        /\ UNCHANGED <<count, total_ns>>
     \/ /\ At(t, "count") /\ Goto(t, "total")
        /\ count' = count + 1 /\ UNCHANGED <<buckets, total_ns>>
     \/ /\ At(t, "total") /\ Goto(t, "load_min")
        /\ total_ns' = total_ns + thread[t].value /\ UNCHANGED <<buckets, count>>
  /\ UNCHANGED <<min_ns, max_ns, reader, recorded, before>>

Load(t) ==
  /\ \/ At(t, "load_min") /\ Move(t, "cas_min", min_ns)
     \/ At(t, "load_max") /\ Move(t, "cas_max", max_ns)
  /\ UNCHANGED <<buckets, count, total_ns, min_ns, max_ns, reader, recorded, before>>

\* Seeded fault: a plain store instead of the compare-exchange.
StoreMin(t) ==
  /\ At(t, "cas_min") /\ Goto(t, "load_max")
  /\ min_ns' = IF thread[t].value < thread[t].current THEN thread[t].value ELSE min_ns
  /\ UNCHANGED <<buckets, count, total_ns, max_ns, reader, recorded, before>>

\* One turn of the loop for the minimum.
CasMin(t) ==
  /\ At(t, "cas_min")
  /\ \/ /\ thread[t].value >= thread[t].current
        /\ Goto(t, "load_max") /\ UNCHANGED min_ns
     \/ /\ thread[t].value < thread[t].current /\ min_ns = thread[t].current
        /\ Goto(t, "load_max") /\ min_ns' = thread[t].value
     \/ /\ thread[t].value < thread[t].current
        /\ Move(t, "cas_min", min_ns) /\ UNCHANGED min_ns
  /\ UNCHANGED <<buckets, count, total_ns, max_ns, reader, recorded, before>>

\* ... and for the maximum.
CasMax(t) ==
  /\ At(t, "cas_max")
  /\ \/ /\ thread[t].value <= thread[t].current
        /\ Goto(t, "idle") /\ UNCHANGED max_ns
     \/ /\ thread[t].value > thread[t].current /\ max_ns = thread[t].current
        /\ Goto(t, "idle") /\ max_ns' = thread[t].value
     \/ /\ thread[t].value > thread[t].current
        /\ Move(t, "cas_max", max_ns) /\ UNCHANGED max_ns
  /\ UNCHANGED <<buckets, count, total_ns, min_ns, reader, recorded, before>>

(* snapshot() *)

Ended(v) == recorded[v] - Cardinality({t \in Thread : ~At(t, "idle") /\ thread[t].value = v})

LoadCount ==
  /\ reader.at = "start"
  /\ reader' = Reading(IF count = 0 THEN "done" ELSE "min",
                       [NoSnapshot EXCEPT !.count = count], 0, 0, 0)
  /\ before' = [v \in Latency |-> Ended(v)]
  /\ UNCHANGED <<buckets, count, total_ns, min_ns, max_ns, thread, recorded>>

\* The mean, a quotient of the total and the count, is left out; so are three of
\* the four percentiles, each of which goes over the buckets afresh.
LoadExtremes ==
  /\ \/ /\ reader.at = "min"
        /\ reader' = [reader EXCEPT !.at = "max", !.out.min_ns = min_ns]
     \/ /\ reader.at = "max"
        /\ reader' = [reader EXCEPT !.at = "rank", !.out.max_ns = max_ns]
  /\ UNCHANGED <<buckets, count, total_ns, min_ns, max_ns, thread, recorded, before>>

ChoosePercentile ==
  /\ reader.at = "rank"
  /\ \E permille \in {500, 950, 990, 999} :
       reader' = Reading("bucket", reader.out, rankOf(permille, reader.out.count), 0, 0)
  /\ UNCHANGED <<buckets, count, total_ns, min_ns, max_ns, thread, recorded, before>>

\* One turn of the loop of percentileUpperBound, or its end.
LoadBucket ==
  LET cumulative == reader.cumulative + buckets[reader.next]
      Return(p)  == reader' = Reading("done", [reader.out EXCEPT !.percentile = p], reader.rank, 0, 0)
  IN  /\ reader.at = "bucket"
      /\ IF reader.next = BucketCount THEN Return(max_ns)
         ELSE IF cumulative >= reader.rank THEN Return(bucketUpperBound(reader.next))
         ELSE reader' = [reader EXCEPT !.next = @ + 1, !.cumulative = cumulative]
      /\ UNCHANGED <<buckets, count, total_ns, min_ns, max_ns, thread, recorded, before>>

Read == LoadCount \/ LoadExtremes \/ ChoosePercentile \/ LoadBucket

Finished == (\A t \in Thread : At(t, "idle")) /\ Recorded = MaxRecords /\ reader.at = "done" /\ UNCHANGED vars

Next ==
  \/ \E t \in Thread : \/ \E v \in Latency : Call(t, v)
                       \/ Add(t) \/ Load(t) \/ CasMin(t) \/ CasMax(t)
  \/ Read \/ Finished

Spec == Init /\ [][Next]_vars
-----------------------------------------------------------------------------
Quiescent == \A t \in Thread : At(t, "idle")
Seen == {v \in Latency : recorded[v] > 0}

\* No update of an extreme is lost, whatever the threads do in between: each
\* extreme is a recorded latency or the initial value, and covers every latency
\* whose call is no longer under way.
ExtremesHeld ==
  /\ min_ns \in Seen \cup {MaxValue} /\ max_ns \in Seen \cup {0}
  /\ \A v \in Seen : \/ min_ns <= v /\ v <= max_ns
                     \/ \E t \in Thread : ~At(t, "idle") /\ thread[t].value = v

\* The extremes hold at any time, and once the threads are out of record() the
\* count and the total are those of the recorded latencies.
ExtremesExact ==
  /\ TypeOK /\ ExtremesHeld
  /\ Quiescent => /\ count = Recorded
                  /\ total_ns = MapThenSumSet(LAMBDA v : v * recorded[v], Latency)

\* The latency of the given rank among some calls, smallest first.
NthSmallest(calls, rank) ==
  Min({v \in Latency : MapThenSumSet(LAMBDA u : calls[u], {u \in Latency : u <= v}) >= rank})

=============================================================================
