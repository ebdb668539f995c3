----------------------- MODULE LatencyHistogramProofs -----------------------
(***************************************************************************)
(* The lock-free extremes of the latency histogram, for any set of         *)
(* threads, any latencies and any number of buckets and calls.             *)
(***************************************************************************)
EXTENDS LatencyHistogram, TLAPS

\* The latencies of calls that have yet to move the minimum, or the maximum.
BeforeMin == {"bucket", "count", "total", "load_min", "cas_min"}
BeforeMax == BeforeMin \cup {"load_max", "cas_max"}
Owed(steps, v) == \E t \in Thread : thread[t].at \in steps /\ thread[t].value = v

Typed ==
  /\ min_ns \in Values /\ max_ns \in Values
  /\ thread \in [Thread -> [at : Steps, value : Values, current : Values]]
  /\ recorded \in [Latency -> Nat]

\* The values threads carry were recorded, and a reading of an extreme is never
\* ahead of the extreme: others only move it outwards meanwhile.
Carried ==
  \A t \in Thread :
    /\ thread[t].at # "idle" => thread[t].value \in Seen
    /\ thread[t].at = "cas_min" => min_ns <= thread[t].current
    /\ thread[t].at = "cas_max" => thread[t].current <= max_ns

Attained == min_ns \in Seen \cup {MaxValue} /\ max_ns \in Seen \cup {0}

LowCovers == \A v \in Seen : min_ns <= v \/ Owed(BeforeMin, v)
HighCovers == \A v \in Seen : v <= max_ns \/ Owed(BeforeMax, v)

ExtremesInv == Typed /\ Carried /\ Attained /\ LowCovers /\ HighCovers

LEMMA CoversGiveExtremes == ExtremesInv => ExtremesHeld
  <1> SUFFICES ASSUME ExtremesInv PROVE ExtremesHeld
    OBVIOUS
  <1>1. ASSUME NEW v \in Seen, ~(min_ns <= v /\ v <= max_ns)
        PROVE  \E t \in Thread : ~At(t, "idle") /\ thread[t].value = v
    BY <1>1 DEF ExtremesInv, LowCovers, HighCovers, Owed, BeforeMin, BeforeMax, At
  <1> QED
    BY <1>1 DEF ExtremesHeld, ExtremesInv, Attained

LEMMA InitExtremes == Init => ExtremesInv
  <1> SUFFICES ASSUME Init PROVE ExtremesInv
    OBVIOUS
  <1>1. Seen = {}
    BY DEF Init, Seen
  <1>2. Typed
    BY HistogramAssumption DEF Init, Typed, Inside, Steps, Values
  <1>3. Carried
    BY DEF Init, Carried, Inside
  <1> QED
    BY <1>1, <1>2, <1>3 DEF Init, ExtremesInv, Attained, LowCovers, HighCovers

-----------------------------------------------------------------------------
\* What a step inside record() does to its thread, whatever it does besides.
LEMMA Moved ==
  ASSUME Typed, NEW t \in Thread, NEW step \in Steps, NEW current \in Values,
         Move(t, step, current)
  PROVE  /\ thread' \in [Thread -> [at : Steps, value : Values, current : Values]]
         /\ thread'[t].at = step /\ thread'[t].value = thread[t].value
         /\ thread'[t].current = current
         /\ \A u \in Thread : u # t => thread'[u] = thread[u]
  BY DEF Typed, Move, Inside

\* A step that moves no extreme keeps what the extremes cover when its thread
\* still owes what it owed.
LEMMA StillOwed ==
  ASSUME Typed, NEW t \in Thread, NEW steps,
         thread'[t].value = thread[t].value,
         thread[t].at \in steps => thread'[t].at \in steps,
         \A u \in Thread : u # t => thread'[u] = thread[u],
         NEW v, Owed(steps, v)
  PROVE  Owed(steps, v)'
  BY Zenon DEF Owed

\* Calls have ended or are as before for everyone but t.
LEMMA OwedByOthers ==
  ASSUME NEW t \in Thread, NEW steps,
         \A u \in Thread : u # t => thread'[u] = thread[u],
         NEW v, Owed(steps, v), v # thread[t].value
  PROVE  Owed(steps, v)'
  BY Zenon DEF Owed

LEMMA SeenKept == ASSUME recorded' = recorded PROVE Seen' = Seen
  BY DEF Seen

\* A step of t that moves no extreme and stays before both of them, or after.
LEMMA QuietStep ==
  ASSUME ExtremesInv, NEW t \in Thread, NEW step \in Steps, NEW current \in Values,
         Move(t, step, current), step # "idle", thread[t].at # "idle",
         min_ns' = min_ns, max_ns' = max_ns, recorded' = recorded,
         step = "cas_min" => min_ns <= current,
         step = "cas_max" => current <= max_ns,
         thread[t].at \in BeforeMin => step \in BeforeMin \/ min_ns <= thread[t].value,
         thread[t].at \in BeforeMax => step \in BeforeMax
  PROVE  ExtremesInv'
  <1>1. Typed /\ Carried /\ Attained /\ LowCovers /\ HighCovers
    BY Zenon DEF ExtremesInv
  <1>2. /\ thread' \in [Thread -> [at : Steps, value : Values, current : Values]]
        /\ thread'[t].at = step /\ thread'[t].value = thread[t].value
        /\ thread'[t].current = current
        /\ \A u \in Thread : u # t => thread'[u] = thread[u]
    BY <1>1, Moved
  <1>3. Seen' = Seen
    BY Zenon, SeenKept
  <1>4. Typed'
    BY <1>1, <1>2, Zenon DEF Typed
  <1>5. Carried'
    BY <1>1, <1>2, <1>3 DEF Carried
  <1>6. Attained'
    BY <1>1, <1>3, Zenon DEF Attained
  <1>7. ASSUME NEW v \in Seen PROVE min_ns <= v \/ Owed(BeforeMin, v)'
    <2>1. min_ns <= v \/ Owed(BeforeMin, v)
      BY <1>1, Zenon DEF LowCovers
    <2>2. CASE v = thread[t].value /\ thread[t].at \in BeforeMin
      BY <2>2, <1>2 DEF Owed
    <2>3. CASE ~(v = thread[t].value /\ thread[t].at \in BeforeMin)
      BY <2>1, <2>3, <1>2, Zenon DEF Owed
    <2> QED
      BY <2>2, <2>3, Zenon
  <1>8. ASSUME NEW v \in Seen PROVE v <= max_ns \/ Owed(BeforeMax, v)'
    <2>1. v <= max_ns \/ Owed(BeforeMax, v)
      BY <1>1, Zenon DEF HighCovers
    <2>2. thread[t].at \in BeforeMax => thread'[t].at \in BeforeMax
      BY <1>2, Zenon
    <2> QED
      BY <2>1, <2>2, <1>1, <1>2, StillOwed, Zenon
  <1>9. LowCovers' /\ HighCovers'
    BY <1>3, <1>7, <1>8, Zenon DEF LowCovers, HighCovers
  <1> QED
    BY <1>4, <1>5, <1>6, <1>9, Zenon DEF ExtremesInv
-----------------------------------------------------------------------------
LEMMA CallKeepsExtremes ==
  ASSUME ExtremesInv, NEW t \in Thread, NEW v \in Latency, Call(t, v)
  PROVE  ExtremesInv'
  <1>1. Typed /\ Carried /\ Attained /\ LowCovers /\ HighCovers
    BY Zenon DEF ExtremesInv
  <1>2. v \in Values
    BY HistogramAssumption DEF Values
  <1>3. /\ thread[t].at = "idle"
        /\ thread' = [thread EXCEPT ![t] = Inside("bucket", v, 0)]
        /\ recorded' = [recorded EXCEPT ![v] = @ + 1]
        /\ min_ns' = min_ns /\ max_ns' = max_ns
    BY Zenon DEF Call, At
  <1>4. /\ thread' \in [Thread -> [at : Steps, value : Values, current : Values]]
        /\ thread'[t].at = "bucket" /\ thread'[t].value = v
        /\ \A u \in Thread : u # t => thread'[u] = thread[u]
    BY <1>1, <1>2, <1>3, HistogramAssumption DEF Typed, Inside, Steps, Values
  <1>5. recorded' \in [Latency -> Nat] /\ Seen' = Seen \cup {v}
    BY <1>1, <1>3 DEF Typed, Seen
  <1>6. Typed'
    BY <1>1, <1>3, <1>4, <1>5, Zenon DEF Typed
  <1>7. Carried'
    BY <1>1, <1>3, <1>4, <1>5 DEF Carried
  <1>8. Attained'
    BY <1>1, <1>3, <1>5, Zenon DEF Attained
  <1>9. /\ Owed(BeforeMin, v)' /\ Owed(BeforeMax, v)'
        /\ \A steps \in {BeforeMin, BeforeMax}, u \in Seen : Owed(steps, u) => Owed(steps, u)'
    <2>1. "bucket" \in BeforeMin /\ "bucket" \in BeforeMax
      BY DEF BeforeMin, BeforeMax
    <2>2. "idle" \notin BeforeMin /\ "idle" \notin BeforeMax
      BY DEF BeforeMin, BeforeMax
    <2>3. Owed(BeforeMin, v)' /\ Owed(BeforeMax, v)'
      BY <2>1, <1>4, Zenon DEF Owed
    <2>4. ASSUME NEW steps, "idle" \notin steps, NEW u, Owed(steps, u)
          PROVE  Owed(steps, u)'
      BY <2>4, <1>3, <1>4, Zenon DEF Owed
    <2> QED
      BY <2>2, <2>3, <2>4
  <1>10. LowCovers' /\ HighCovers'
    BY <1>1, <1>3, <1>5, <1>9, Zenon DEF LowCovers, HighCovers
  <1> QED
    BY <1>6, <1>7, <1>8, <1>10, Zenon DEF ExtremesInv

LEMMA AddKeepsExtremes ==
  ASSUME ExtremesInv, NEW t \in Thread, Add(t)
  PROVE  ExtremesInv'
  <1> DEFINE c == thread[t].current
  <1>1. c \in Values
    BY DEF ExtremesInv, Typed
  <1>2. min_ns' = min_ns /\ max_ns' = max_ns /\ recorded' = recorded
    BY Zenon DEF Add
  <1>3. \/ thread[t].at = "bucket" /\ Move(t, "count", c)
        \/ thread[t].at = "count" /\ Move(t, "total", c)
        \/ thread[t].at = "total" /\ Move(t, "load_min", c)
    BY Zenon DEF Add, At, Goto
  <1>4. PICK step \in {"count", "total", "load_min"} :
          Move(t, step, c) /\ thread[t].at \in {"bucket", "count", "total"}
    BY <1>3
  <1>5. /\ step \in Steps /\ step \in BeforeMin /\ step \in BeforeMax
        /\ step # "idle" /\ step # "cas_min" /\ step # "cas_max" /\ thread[t].at # "idle"
    BY <1>4 DEF Steps, BeforeMin, BeforeMax
  <1> HIDE DEF c
  <1> QED
    BY <1>1, <1>2, <1>4, <1>5, QuietStep, Zenon

LEMMA LoadKeepsExtremes ==
  ASSUME ExtremesInv, NEW t \in Thread, Load(t)
  PROVE  ExtremesInv'
  <1>1. min_ns \in Values /\ max_ns \in Values
    BY Zenon DEF ExtremesInv, Typed
  <1>2. min_ns' = min_ns /\ max_ns' = max_ns /\ recorded' = recorded
    BY Zenon DEF Load
  <1>3. min_ns <= min_ns /\ max_ns <= max_ns
    BY <1>1, HistogramAssumption DEF Values
  <1>4. CASE thread[t].at = "load_min" /\ Move(t, "cas_min", min_ns)
    <2>1. "cas_min" \in Steps /\ "cas_min" \in BeforeMin /\ "cas_min" \in BeforeMax
      BY DEF Steps, BeforeMin, BeforeMax
    <2>2. "cas_min" # "cas_max" /\ "cas_min" # "idle" /\ thread[t].at # "idle"
      BY <1>4
    <2> QED
      BY <1>1, <1>2, <1>3, <1>4, <2>1, <2>2, QuietStep, Zenon
  <1>5. CASE thread[t].at = "load_max" /\ Move(t, "cas_max", max_ns)
    <2>1. "cas_max" \in Steps /\ thread[t].at \notin BeforeMin /\ "cas_max" \in BeforeMax
      BY <1>5 DEF Steps, BeforeMin, BeforeMax
    <2>2. "cas_max" # "cas_min" /\ "cas_max" # "idle" /\ thread[t].at # "idle"
      BY <1>5
    <2> QED
      BY <1>1, <1>2, <1>3, <1>5, <2>1, <2>2, QuietStep, Zenon
  <1> QED
    BY <1>4, <1>5, Zenon DEF Load, At
-----------------------------------------------------------------------------
\* The compare-exchange that lowers the minimum to the value of its thread.
LEMMA LowerKeepsExtremes ==
  ASSUME ExtremesInv, NEW t \in Thread, thread[t].at = "cas_min",
         thread[t].value < thread[t].current, min_ns = thread[t].current,
         Move(t, "load_max", thread[t].current),
         min_ns' = thread[t].value, max_ns' = max_ns, recorded' = recorded
  PROVE  ExtremesInv'
  <1>1. Typed /\ Carried /\ Attained /\ LowCovers /\ HighCovers
    BY Zenon DEF ExtremesInv
  <1>2. thread[t].current \in Values /\ thread[t].value \in Values /\ min_ns \in Values
    BY <1>1 DEF Typed
  <1>3. "load_max" \in Steps /\ "load_max" \in BeforeMax /\ "load_max" \notin BeforeMin
    BY DEF Steps, BeforeMin, BeforeMax
  <1>4. /\ thread' \in [Thread -> [at : Steps, value : Values, current : Values]]
        /\ thread'[t].at = "load_max" /\ thread'[t].value = thread[t].value
        /\ \A u \in Thread : u # t => thread'[u] = thread[u]
    BY <1>1, <1>2, <1>3, Moved
  <1>5. Seen' = Seen /\ Seen \subseteq Values
    BY Zenon, SeenKept, HistogramAssumption DEF Seen, Values
  <1>6. Typed'
    BY <1>1, <1>2, <1>4, Zenon DEF Typed
  <1>7. Carried'
    <2>1. ASSUME NEW u \in Thread, thread[u].at = "cas_min"
          PROVE  min_ns' <= thread[u].current
      <3>1. min_ns <= thread[u].current /\ thread[u].current \in Values
        BY <2>1, <1>1 DEF Carried, Typed
      <3> QED
        BY <3>1, <1>2, HistogramAssumption DEF Values
    <2> QED
      BY <2>1, <1>1, <1>4, <1>5 DEF Carried
  <1>8. Attained'
    BY <1>1, <1>5 DEF Attained, Carried
  <1>9. ASSUME NEW v \in Seen PROVE min_ns' <= v \/ Owed(BeforeMin, v)'
    <2>1. CASE min_ns <= v
      BY <2>1, <1>2, <1>5, HistogramAssumption DEF Values
    <2>2. CASE v = thread[t].value
      BY <2>2, <1>2, HistogramAssumption DEF Values
    <2>3. CASE v # thread[t].value /\ Owed(BeforeMin, v)
      BY <2>3, <1>4, OwedByOthers, Zenon
    <2> QED
      BY <1>1, <2>1, <2>2, <2>3, Zenon DEF LowCovers
  <1>10. ASSUME NEW v \in Seen PROVE v <= max_ns \/ Owed(BeforeMax, v)'
    BY <1>1, <1>3, <1>4, StillOwed, Zenon DEF HighCovers
  <1>11. LowCovers' /\ HighCovers'
    BY <1>5, <1>9, <1>10, Zenon DEF LowCovers, HighCovers
  <1> QED
    BY <1>6, <1>7, <1>8, <1>11, Zenon DEF ExtremesInv

LEMMA CasMinKeepsExtremes ==
  ASSUME ExtremesInv, NEW t \in Thread, CasMin(t)
  PROVE  ExtremesInv'
  <1>1. /\ thread[t].at = "cas_min" /\ max_ns' = max_ns /\ recorded' = recorded
        /\ thread[t].current \in Values /\ thread[t].value \in Values /\ min_ns \in Values
    BY DEF CasMin, At, ExtremesInv, Typed
  <1>2. /\ "load_max" \in Steps /\ "load_max" \in BeforeMax
        /\ "cas_min" \in Steps /\ "cas_min" \in BeforeMin /\ "cas_min" \in BeforeMax
        /\ "load_max" # "cas_max" /\ "load_max" # "cas_min" /\ "load_max" # "idle"
        /\ "cas_min" # "cas_max" /\ "cas_min" # "idle"
    BY DEF Steps, BeforeMin, BeforeMax
  <1>3. CASE /\ thread[t].value >= thread[t].current
             /\ Move(t, "load_max", thread[t].current) /\ min_ns' = min_ns
    <2>1. min_ns <= thread[t].current
      BY <1>1, Zenon DEF ExtremesInv, Carried
    <2>2. min_ns <= thread[t].value
      BY <2>1, <1>1, <1>3, HistogramAssumption DEF Values
    <2> QED
      BY <2>2, <1>1, <1>2, <1>3, QuietStep, Zenon
  <1>4. CASE /\ thread[t].value < thread[t].current /\ min_ns = thread[t].current
             /\ Move(t, "load_max", thread[t].current) /\ min_ns' = thread[t].value
    BY <1>1, <1>4, LowerKeepsExtremes, Zenon
  <1>5. CASE Move(t, "cas_min", min_ns) /\ min_ns' = min_ns
    <2>1. min_ns <= min_ns
      BY <1>1, HistogramAssumption DEF Values
    <2> QED
      BY <2>1, <1>1, <1>2, <1>5, QuietStep, Zenon
  <1> QED
    BY <1>3, <1>4, <1>5, Zenon DEF CasMin, Goto

\* The end of record(): its thread owes nothing more, the maximum covers it.
LEMMA LeaveKeepsExtremes ==
  ASSUME ExtremesInv, NEW t \in Thread, thread[t].at = "cas_max",
         Move(t, "idle", thread[t].current), max_ns' \in {max_ns, thread[t].value},
         max_ns <= max_ns', thread[t].value <= max_ns',
         min_ns' = min_ns, recorded' = recorded
  PROVE  ExtremesInv'
  <1>1. Typed /\ Carried /\ Attained /\ LowCovers /\ HighCovers
    BY Zenon DEF ExtremesInv
  <1>2. /\ thread[t].current \in Values /\ thread[t].value \in Values
        /\ max_ns \in Values /\ max_ns' \in Values
    BY <1>1 DEF Typed
  <1>3. "idle" \in Steps /\ "cas_max" \notin BeforeMin
    BY DEF Steps, BeforeMin
  <1>4. /\ thread' \in [Thread -> [at : Steps, value : Values, current : Values]]
        /\ thread'[t].at = "idle" /\ thread'[t].value = thread[t].value
        /\ \A u \in Thread : u # t => thread'[u] = thread[u]
    BY <1>1, <1>2, <1>3, Moved
  <1>5. Seen' = Seen /\ Seen \subseteq Values
    BY Zenon, SeenKept, HistogramAssumption DEF Seen, Values
  <1>6. Typed'
    BY <1>1, <1>2, <1>4, Zenon DEF Typed
  <1>7. Carried'
    <2>1. ASSUME NEW u \in Thread, thread[u].at = "cas_max"
          PROVE  thread[u].current <= max_ns'
      <3>1. thread[u].current <= max_ns /\ thread[u].current \in Values
        BY <2>1, <1>1 DEF Carried, Typed
      <3> QED
        BY <3>1, <1>2, HistogramAssumption DEF Values
    <2> QED
      BY <2>1, <1>1, <1>4, <1>5 DEF Carried
  <1>8. Attained'
    BY <1>1, <1>5 DEF Attained, Carried
  <1>9. ASSUME NEW v \in Seen PROVE v <= max_ns' \/ Owed(BeforeMax, v)'
    <2>1. CASE v <= max_ns
      BY <2>1, <1>2, <1>5, HistogramAssumption DEF Values
    <2>2. CASE v = thread[t].value
      BY <2>2
    <2>3. CASE v # thread[t].value /\ Owed(BeforeMax, v)
      BY <2>3, <1>4, OwedByOthers, Zenon
    <2> QED
      BY <1>1, <2>1, <2>2, <2>3, Zenon DEF HighCovers
  <1>10. ASSUME NEW v \in Seen PROVE min_ns <= v \/ Owed(BeforeMin, v)'
    BY <1>1, <1>3, <1>4, StillOwed, Zenon DEF LowCovers
  <1>11. LowCovers' /\ HighCovers'
    BY <1>5, <1>9, <1>10, Zenon DEF LowCovers, HighCovers
  <1> QED
    BY <1>6, <1>7, <1>8, <1>11, Zenon DEF ExtremesInv

LEMMA CasMaxKeepsExtremes ==
  ASSUME ExtremesInv, NEW t \in Thread, CasMax(t)
  PROVE  ExtremesInv'
  <1>1. /\ thread[t].at = "cas_max" /\ min_ns' = min_ns /\ recorded' = recorded
        /\ thread[t].current \in Values /\ thread[t].value \in Values /\ max_ns \in Values
    BY DEF CasMax, At, ExtremesInv, Typed
  <1>2. thread[t].current <= max_ns
    BY <1>1, Zenon DEF ExtremesInv, Carried
  <1>3. CASE /\ thread[t].value <= thread[t].current
             /\ Move(t, "idle", thread[t].current) /\ max_ns' = max_ns
    <2>1. max_ns <= max_ns' /\ thread[t].value <= max_ns' /\ max_ns' \in {max_ns, thread[t].value}
      BY <1>1, <1>2, <1>3, HistogramAssumption DEF Values
    <2> QED
      BY <2>1, <1>1, <1>3, LeaveKeepsExtremes, Zenon
  <1>4. CASE /\ thread[t].value > thread[t].current /\ max_ns = thread[t].current
             /\ Move(t, "idle", thread[t].current) /\ max_ns' = thread[t].value
    <2>1. max_ns <= max_ns' /\ thread[t].value <= max_ns' /\ max_ns' \in {max_ns, thread[t].value}
      BY <1>1, <1>4, HistogramAssumption DEF Values
    <2> QED
      BY <2>1, <1>1, <1>4, LeaveKeepsExtremes, Zenon
  <1>5. CASE Move(t, "cas_max", max_ns) /\ max_ns' = max_ns
    <2>1. max_ns <= max_ns
      BY <1>1, HistogramAssumption DEF Values
    <2>2. /\ "cas_max" \in Steps /\ "cas_max" \in BeforeMax /\ "cas_max" \notin BeforeMin
          /\ "cas_max" # "cas_min" /\ "cas_max" # "idle"
      BY DEF Steps, BeforeMin, BeforeMax
    <2> QED
      BY <2>1, <2>2, <1>1, <1>5, QuietStep, Zenon
  <1> QED
    BY <1>3, <1>4, <1>5, Zenon DEF CasMax, Goto
-----------------------------------------------------------------------------
\* Steps of others: the reader of a snapshot writes nothing here.
LEMMA UntouchedExtremes ==
  ASSUME ExtremesInv, UNCHANGED <<min_ns, max_ns, thread, recorded>>
  PROVE  ExtremesInv'
  <1>1. min_ns' = min_ns /\ max_ns' = max_ns /\ thread' = thread /\ recorded' = recorded
    OBVIOUS
  <1>2. Typed' /\ Carried' /\ Attained'
    BY <1>1 DEF ExtremesInv, Typed, Carried, Attained, Seen
  <1>3. LowCovers' /\ HighCovers'
    BY <1>1 DEF ExtremesInv, LowCovers, HighCovers, Seen, Owed
  <1> QED
    BY <1>2, <1>3, Zenon DEF ExtremesInv

LEMMA NextExtremes == ExtremesInv /\ [Next]_vars => ExtremesInv'
  <1> SUFFICES ASSUME ExtremesInv, [Next]_vars PROVE ExtremesInv'
    OBVIOUS
  <1>1. CASE \E t \in Thread, v \in Latency : Call(t, v)
    BY <1>1, CallKeepsExtremes, Zenon
  <1>2. CASE \E t \in Thread : Add(t) \/ Load(t)
    BY <1>2, AddKeepsExtremes, LoadKeepsExtremes, Zenon
  <1>3. CASE \E t \in Thread : CasMin(t) \/ CasMax(t)
    BY <1>3, CasMinKeepsExtremes, CasMaxKeepsExtremes, Zenon
  <1>4. CASE Read
    <2>1. UNCHANGED <<min_ns, max_ns, thread, recorded>>
      BY <1>4 DEF Read, LoadCount, LoadExtremes, ChoosePercentile, LoadBucket
    <2> QED
      BY <2>1, UntouchedExtremes, Zenon
  <1>5. CASE UNCHANGED vars
    <2>1. UNCHANGED <<min_ns, max_ns, thread, recorded>>
      BY <1>5 DEF vars
    <2> QED
      BY <2>1, UntouchedExtremes, Zenon
  <1> QED
    BY <1>1, <1>2, <1>3, <1>4, <1>5, Zenon DEF Next, Finished

\* record() of the histogram loses no update of its minimum or maximum: at any
\* time, for any number of threads, each is attained or initial and covers every
\* latency whose call is over.
THEOREM ExtremesNeverLost == Spec => []ExtremesHeld
  <1>1. ExtremesInv => ExtremesHeld
    BY CoversGiveExtremes
  <1> QED
    BY <1>1, InitExtremes, NextExtremes, PTL DEF Spec
=============================================================================
