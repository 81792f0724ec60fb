------------------------ MODULE MinuteCounterProofs -------------------------
(***************************************************************************)
(* Proofs about MinuteCounter, for every window, set of threads and bound: *)
(* the type invariant; for any clock, that nothing is shown which was not  *)
(* recorded; for a clock that never steps back, that the window is exact,  *)
(* that the counter implements CountLog and that the dict stays bounded.   *)
(***************************************************************************)
EXTENDS MinuteCounter, FiniteSetTheorems, TLAPS

ClockNeverStepsBack == ClockSteps \subseteq Nat

\* A call in progress read its minute in the past.
KeysRead ==
  /\ \A t \in DOMAIN pending : pending[t].key <= now
  /\ \A r \in DOMAIN asked : asked[r] <= now

\* An evicted or recreated minute shows no more than was counted in it.
NeverOvercounts ==
  \A k \in Int, e \in EventTypes : Point(buckets, k)[e] <= Point(log, k)[e]

\* Nothing has been counted for a minute to come.
NothingAhead ==
  /\ DOMAIN buckets \subseteq DOMAIN log
  /\ \A k \in DOMAIN log : k <= now

\* WindowExact alone is not inductive: a clock step brings a new minute into
\* the window (NothingAhead), and a record evicts by a key read earlier
\* (KeysRead).  NeverOvercounts is what an answer about the past needs.
IInv == TypeOK /\ KeysRead /\ NothingAhead /\ NeverOvercounts /\ WindowExact
-----------------------------------------------------------------------------
\* What a later window holds, the earlier one held, or it lay ahead.
LEMMA TrailingBack ==
  ASSUME NEW n \in Int, NEW k \in Int, n <= k, NEW m \in Trailing(k)
  PROVE  m \in Trailing(n) \/ m > n
<1>1. Window \in Nat \ {0} /\ m \in Int /\ k - Window + 1 <= m
  BY WindowAssumption DEF Trailing
<1>2. n - Window + 1 <= m
  BY <1>1
<1> QED BY <1>1, <1>2 DEF Trailing

LEMMA PointType ==
  ASSUME NEW table, IsTable(table), NEW k \in Int
  PROVE  Point(table, k) \in [EventTypes -> Nat]
BY DEF IsTable, Point, Zeros

\* What a bump does to the count of a minute: one more for the kind that
\* happened, and nothing else.
LEMMA BumpPoint ==
  ASSUME NEW table, IsTable(table), NEW k \in Int, NEW e \in EventTypes,
         NEW m \in Int
  PROVE  /\ IsTable(Bump(table, k, e))
         /\ DOMAIN Bump(table, k, e) = DOMAIN table \cup {k}
         /\ Point(Bump(table, k, e), m) =
              IF m = k THEN Plus(Point(table, k), e)
                       ELSE Point(table, m)
<1>1. Point(table, k) \in [EventTypes -> Nat]
  BY PointType
<1>2. Plus(Point(table, k), e) \in [EventTypes -> Nat]
  BY <1>1 DEF Plus
<1>3. DOMAIN Bump(table, k, e) = DOMAIN table \cup {k}
  BY DEF Bump, With
<1>4. IsTable(Bump(table, k, e))
  BY <1>2, <1>3 DEF IsTable, Bump, With
<1>5. Point(Bump(table, k, e), m) =
        IF m = k THEN Plus(Point(table, k), e) ELSE Point(table, m)
  <2>1. CASE m = k
    BY <2>1, <1>3 DEF Bump, With, Point
  <2>2. CASE m /= k
    BY <2>2, <1>3 DEF Bump, With, Point
  <2> QED BY <2>1, <2>2
<1> QED BY <1>3, <1>4, <1>5

\* What dropping rows does: a dropped minute reads as zeros.
LEMMA WithoutPoint ==
  ASSUME NEW table, IsTable(table), NEW gone, NEW m \in Int
  PROVE  /\ IsTable(Without(table, gone))
         /\ Point(Without(table, gone), m) =
              IF m \in gone THEN Zeros ELSE Point(table, m)
BY DEF IsTable, Without, Point

-----------------------------------------------------------------------------
\* Every reachable state of the counter is well typed (stats.py:26-68).
THEOREM TypeCorrect == Spec => []TypeOK
<1>1. Init => TypeOK
  BY DEF Init, TypeOK, IsTable
<1>2. TypeOK /\ [Next]_vars => TypeOK'
  <2> SUFFICES ASSUME TypeOK, [Next]_vars PROVE TypeOK'
    OBVIOUS
  <2> USE DEF TypeOK
  <2>1. CASE Tick
    BY <2>1, ClockAssumption DEF Tick, IsTable
  <2>2. ASSUME NEW t \in Threads, NEW e \in EventTypes, ReadKey(t, e)
        PROVE TypeOK'
    BY <2>2 DEF ReadKey, With, IsTable
  <2>3. ASSUME NEW t \in Threads, RecordLocked(t) PROVE TypeOK'
    <3> DEFINE k == pending[t].key
               e == pending[t].event
               gone == IF k \in DOMAIN buckets THEN {} ELSE Expired(k)
    <3>1. k \in Int /\ e \in EventTypes
      BY <2>3 DEF RecordLocked
    <3>2. IsTable(Without(buckets, gone))
      BY WithoutPoint
    <3>3. IsTable(Bump(Without(buckets, gone), k, e)) /\ IsTable(Bump(log, k, e))
      <4> HIDE DEF gone
      <4> QED BY <3>1, <3>2, BumpPoint
    <3> QED BY <2>3, <3>3 DEF RecordLocked, Without, IsTable
  <2>4. ASSUME NEW r \in Readers, ReadNow(r) PROVE TypeOK'
    BY <2>4 DEF ReadNow, With, IsTable
  <2>5. ASSUME NEW r \in Readers, PointsLocked(r) PROVE TypeOK'
    <3>1. asked[r] \in Int
      BY <2>5 DEF PointsLocked
    <3>2. \A k \in Trailing(asked[r]) : k \in Int
      BY <3>1, WindowAssumption DEF Trailing
    <3>3. IsTable(chart')
      BY <2>5, <3>2, PointType DEF PointsLocked, IsTable
    <3> QED BY <2>5, <3>3 DEF PointsLocked, Without, IsTable
  <2>6. CASE Reset
    BY <2>6 DEF Reset, IsTable
  <2>7. CASE UNCHANGED vars
    BY <2>7 DEF vars, IsTable
  <2> QED BY <2>1, <2>2, <2>3, <2>4, <2>5, <2>6, <2>7 DEF Next
<1> QED BY <1>1, <1>2, PTL DEF Spec

-----------------------------------------------------------------------------
\* What record does under the lock, seen from one minute: an expired minute
\* is zeroed, the minute of the event gains one.
LEMMA RecordPoint ==
  ASSUME TypeOK, NEW t \in Threads, RecordLocked(t), NEW m \in Int
  PROVE  LET k == pending[t].key
             e == pending[t].event
             gone == IF k \in DOMAIN buckets THEN {} ELSE Expired(k)
             kept == IF m \in gone THEN Zeros ELSE Point(buckets, m)
         IN  /\ k \in Int /\ e \in EventTypes
             /\ k \notin gone
             /\ m \in gone => k - m >= Window
             /\ Point(buckets, m)' =
                  IF m = k THEN Plus(kept, e) ELSE kept
             /\ Point(log, m)' =
                  IF m = k THEN Plus(Point(log, m), e)
                           ELSE Point(log, m)
<1> DEFINE k == pending[t].key
           e == pending[t].event
           gone == IF k \in DOMAIN buckets THEN {} ELSE Expired(k)
<1>1. k \in Int /\ e \in EventTypes
  BY DEF RecordLocked, TypeOK
<1>2. k \notin gone /\ (m \in gone => k - m >= Window)
  BY <1>1, WindowAssumption DEF Expired
<1>3. IsTable(buckets) /\ IsTable(log)
  BY DEF TypeOK
<1>4. /\ buckets' = Bump(Without(buckets, gone), k, e)
      /\ log' = Bump(log, k, e)
  BY DEF RecordLocked
<1> HIDE DEF gone, k, e
<1>5. /\ IsTable(Without(buckets, gone))
      /\ Point(Without(buckets, gone), m) =
           IF m \in gone THEN Zeros ELSE Point(buckets, m)
      /\ Point(Without(buckets, gone), k) =
           IF k \in gone THEN Zeros ELSE Point(buckets, k)
  BY <1>1, <1>3, WithoutPoint
<1>6. Point(buckets', m) =
        IF m = k THEN Plus(Point(Without(buckets, gone), k), e)
                 ELSE Point(Without(buckets, gone), m)
  BY <1>1, <1>4, <1>5, BumpPoint
<1>7. Point(log', m) = IF m = k THEN Plus(Point(log, k), e)
                                ELSE Point(log, m)
  <2>1. Point(Bump(log, k, e), m) =
          IF m = k THEN Plus(Point(log, k), e) ELSE Point(log, m)
    BY <1>1, <1>3, BumpPoint
  <2> QED BY <1>4, <2>1
<1>8. Point(buckets, m)' = Point(buckets', m) /\ Point(log, m)' = Point(log', m)
  BY DEF Point
<1> QED BY <1>1, <1>2, <1>5, <1>6, <1>7, <1>8 DEF gone, k, e

\* No step makes a bucket show more than was counted, whatever the clock did
\* and however late a record gets the lock.
LEMMA OvercountStep ==
  ASSUME TypeOK, NeverOvercounts, [Next]_vars
  PROVE  NeverOvercounts'
<1>1. ASSUME NEW t \in Threads, RecordLocked(t),
             NEW m \in Int, NEW f \in EventTypes
      PROVE  (Point(buckets, m)[f] <= Point(log, m)[f])'
  <2> DEFINE k == pending[t].key
             e == pending[t].event
  <2>1. /\ Point(buckets, m) \in [EventTypes -> Nat]
        /\ Point(log, m) \in [EventTypes -> Nat]
        /\ Zeros \in [EventTypes -> Nat] /\ Zeros[f] = 0
        /\ Point(buckets, m)[f] <= Point(log, m)[f]
    BY PointType DEF TypeOK, NeverOvercounts, Zeros
  <2>2. PICK gone : LET kept == IF m \in gone THEN Zeros ELSE Point(buckets, m)
                    IN  /\ Point(buckets, m)' =
                             IF m = k THEN Plus(kept, e) ELSE kept
                        /\ Point(log, m)' =
                             IF m = k THEN Plus(Point(log, m), e)
                                      ELSE Point(log, m)
    BY <1>1, RecordPoint
  <2>3. Point(buckets, m)'[f] <= Point(log, m)'[f]
    <3> HIDE DEF k, e
    <3> QED BY <2>1, <2>2 DEF Plus
  <2> QED BY <2>3 DEF Point
<1>2. CASE Reset
  <2>1. \A k : Point(buckets', k) = Zeros /\ Point(log', k) = Zeros
    BY <1>2 DEF Reset, Point
  <2> QED BY <1>2, <2>1 DEF Reset, Point, Zeros, NeverOvercounts
<1>3. CASE \/ Tick \/ UNCHANGED vars
           \/ \E t \in Threads, e \in EventTypes : ReadKey(t, e)
           \/ \E r \in Readers : ReadNow(r) \/ PointsLocked(r)
  <2>1. UNCHANGED <<buckets, log>>
    BY <1>3 DEF Tick, ReadKey, ReadNow, PointsLocked, vars
  <2> QED BY <2>1 DEF NeverOvercounts, Point
<1> QED BY <1>1, <1>2, <1>3 DEF Next, NeverOvercounts

LEMMA Inductive ==
  ASSUME ClockNeverStepsBack, IInv, TypeOK', [Next]_vars
  PROVE  IInv'
<1> USE DEF IInv
<1>0. /\ now \in Int
      /\ \A t \in DOMAIN pending : /\ pending[t].key \in Int
                                   /\ pending[t].event \in EventTypes
      /\ \A r \in DOMAIN asked : asked[r] \in Int
      /\ DOMAIN log \subseteq Int
  BY DEF TypeOK, IsTable
<1>1. CASE Tick
  <2>1. PICK d \in ClockSteps : now' = now + d
    BY <1>1 DEF Tick
  <2>2. now' \in Int /\ now' >= now
    <3>1. d \in Nat
      BY DEF ClockNeverStepsBack
    <3> QED BY <2>1, <3>1, <1>0
  <2>3. UNCHANGED <<buckets, pending, asked, log>>
    BY <1>1 DEF Tick
  <2>4. KeysRead'
    BY <1>0, <2>2, <2>3 DEF KeysRead
  <2>5. NothingAhead'
    BY <1>0, <2>2, <2>3 DEF NothingAhead
  <2>6. NeverOvercounts'
    BY OvercountStep
  <2>7. ASSUME NEW m \in Trailing(now)'
        PROVE  (Point(buckets, m) = Point(log, m))'
    <3>1. m \in Trailing(now) \/ m > now
      <4>1. m \in Trailing(now')
        BY <2>7 DEF Trailing
      <4> QED BY <1>0, <2>2, <4>1, TrailingBack
    <3>2. CASE m \in Trailing(now)
      BY <3>2, <2>3 DEF WindowExact, Point
    <3>3. CASE m > now
      <4>1. m \notin DOMAIN log
        BY <1>0, <3>3 DEF NothingAhead
      <4> QED BY <4>1, <2>3 DEF NothingAhead, Point
    <3> QED BY <3>1, <3>2, <3>3
  <2> QED BY <2>4, <2>5, <2>6, <2>7 DEF WindowExact
<1>2. ASSUME NEW t \in Threads, NEW e \in EventTypes, ReadKey(t, e)
      PROVE  IInv'
  <2>1. KeysRead'
    BY <1>0, <1>2 DEF ReadKey, KeysRead, With
  <2>2. NothingAhead' /\ NeverOvercounts' /\ WindowExact'
    BY <1>2 DEF ReadKey, NothingAhead, NeverOvercounts, WindowExact, Point,
                Trailing
  <2> QED BY <2>1, <2>2
<1>3. ASSUME NEW t \in Threads, RecordLocked(t)
      PROVE  IInv'
  <2> DEFINE k == pending[t].key
             e == pending[t].event
  <2>1. now' = now /\ t \in DOMAIN pending /\ k <= now
    BY <1>3 DEF RecordLocked, KeysRead
  <2>2. KeysRead'
    BY <1>3 DEF RecordLocked, KeysRead, Without
  <2>3. NothingAhead'
    BY <1>0, <1>3, <2>1 DEF RecordLocked, NothingAhead, Bump, With, Without
  <2>4. NeverOvercounts'
    BY OvercountStep
  <2>5. ASSUME NEW m \in Trailing(now)'
        PROVE  (Point(buckets, m) = Point(log, m))'
    <3>1. m \in Int /\ m \in Trailing(now) /\ now - m < Window
      BY <1>0, <2>1, WindowAssumption DEF Trailing
    <3>2. Point(buckets, m) = Point(log, m)
      BY <3>1 DEF WindowExact
    <3>3. PICK gone : LET kept == IF m \in gone THEN Zeros ELSE Point(buckets, m)
                      IN  /\ m \in gone => k - m >= Window
                          /\ Point(buckets, m)' =
                               IF m = k THEN Plus(kept, e) ELSE kept
                          /\ Point(log, m)' =
                               IF m = k THEN Plus(Point(log, m), e)
                                        ELSE Point(log, m)
      BY <1>3, <3>1, RecordPoint
    <3>4. m \notin gone
      BY <1>0, <2>1, <3>1, <3>3, WindowAssumption
    <3>5. Point(buckets, m)' = Point(log, m)'
      BY <3>2, <3>3, <3>4
    <3> QED BY <3>5 DEF Point
  <2> QED BY <2>2, <2>3, <2>4, <2>5 DEF WindowExact
<1>4. ASSUME NEW r \in Readers, ReadNow(r)
      PROVE  IInv'
  <2>1. KeysRead'
    BY <1>0, <1>4 DEF ReadNow, KeysRead, With
  <2> QED BY <1>4, <2>1 DEF ReadNow, NothingAhead, NeverOvercounts, WindowExact,
                            Point, Trailing
<1>5. ASSUME NEW r \in Readers, PointsLocked(r)
      PROVE  IInv'
  <2>1. KeysRead'
    BY <1>5 DEF PointsLocked, KeysRead, Without
  <2> QED BY <1>5, <2>1 DEF PointsLocked, NothingAhead, NeverOvercounts,
                            WindowExact, Point, Trailing
<1>6. CASE Reset
  <2>1. \A k : Point(buckets', k) = Zeros /\ Point(log', k) = Zeros
    BY <1>6 DEF Reset, Point
  <2>2. KeysRead' /\ NothingAhead'
    BY <1>6 DEF Reset, KeysRead, NothingAhead
  <2>3. NeverOvercounts' /\ WindowExact'
    BY <1>0, <1>6, <2>1 DEF Reset, Point, Zeros, NeverOvercounts, WindowExact,
                            Trailing
  <2> QED BY <2>2, <2>3
<1>7. CASE UNCHANGED vars
  BY <1>7 DEF vars, KeysRead, NothingAhead, NeverOvercounts, WindowExact, Point,
              Trailing
<1> QED BY <1>1, <1>2, <1>3, <1>4, <1>5, <1>6, <1>7 DEF Next

LEMMA InitIInv == Init => IInv
BY DEF Init, IInv, TypeOK, IsTable, KeysRead, NothingAhead, NeverOvercounts,
       WindowExact, Point, Zeros

\* While the clock never steps back, every minute on display holds exactly
\* the events recorded in it since the last reset (stats.py:40-46, 64-66).
THEOREM WindowIsExact == ASSUME ClockNeverStepsBack PROVE Spec => []WindowExact
<1>1. IInv /\ TypeOK' /\ [Next]_vars => IInv'
  BY Inductive
<1> QED BY <1>1, InitIInv, TypeCorrect, PTL DEF Spec, IInv

-----------------------------------------------------------------------------
\* Whatever the clock does, a jump may lose counts but never invents one: a
\* minute in the dict holds at most what was recorded in it (stats.py:40-46).
THEOREM JumpsInventNothing == Spec => []NeverOvercounts
<1>1. Init => NeverOvercounts
  BY DEF Init, NeverOvercounts, Point, Zeros
<1>2. TypeOK /\ NeverOvercounts /\ [Next]_vars => NeverOvercounts'
  BY OvercountStep
<1> QED BY <1>1, <1>2, TypeCorrect, PTL DEF Spec

\* A new answer shows, for each minute, at most the events recorded in it.
AnswerWasCounted ==
  chart' /= chart => \A k \in DOMAIN chart', e \in EventTypes :
                       chart'[k][e] <= Point(log, k)[e]

\* So no chart shows an event that did not happen, for any clock and any
\* number of threads (stats.py:52-57).
THEOREM ChartInventsNothing == Spec => [][AnswerWasCounted]_vars
<1>1. TypeOK /\ NeverOvercounts /\ [Next]_vars => [AnswerWasCounted]_vars
  <2> SUFFICES ASSUME TypeOK, NeverOvercounts, [Next]_vars, chart' /= chart,
                      NEW k \in DOMAIN chart', NEW e \in EventTypes
               PROVE  chart'[k][e] <= Point(log, k)[e]
    BY DEF AnswerWasCounted
  <2>1. PICK r \in Readers : PointsLocked(r)
    BY DEF Next, Tick, ReadKey, RecordLocked, ReadNow, Reset, vars
  <2>2. asked[r] \in Int /\ k \in Trailing(asked[r])
        /\ chart'[k] = Point(buckets, k)
    BY <2>1 DEF PointsLocked, TypeOK
  <2>3. k \in Int
    BY <2>2, WindowAssumption DEF Trailing
  <2> QED BY <2>2, <2>3 DEF NeverOvercounts
<1> QED BY <1>1, TypeCorrect, JumpsInventNothing, PTL DEF Spec

-----------------------------------------------------------------------------
\* Every step of the counter is a step of the log it keeps, or a stutter.
LEMMA StepRefines ==
  ASSUME ClockNeverStepsBack, IInv, [Next]_vars
  PROVE  [Counts!LogNext]_Counts!logVars
<1> USE DEF Counts!logVars
<1>1. CASE Tick
  <2>1. PICK d \in ClockSteps : now' = now + d
    BY <1>1 DEF Tick
  <2>2. d \in Nat /\ now \in Int
    BY DEF ClockNeverStepsBack, IInv, TypeOK
  <2>3. CASE d = 0
    BY <1>1, <2>1, <2>2, <2>3 DEF Tick
  <2>4. CASE d > 0
    <3>1. Counts!Advance
      BY <1>1, <2>1, <2>2, <2>4 DEF Tick, Counts!Advance
    <3> QED BY <3>1 DEF Counts!LogNext
  <2> QED BY <2>2, <2>3, <2>4
<1>2. ASSUME NEW t \in Threads, NEW e \in EventTypes, ReadKey(t, e)
      PROVE  UNCHANGED Counts!logVars
  BY <1>2 DEF ReadKey
<1>3. ASSUME NEW t \in Threads, RecordLocked(t)
      PROVE  Counts!LogNext
  <2> DEFINE k == pending[t].key
             e == pending[t].event
  <2>1. k <= now /\ e \in EventTypes
    BY <1>3 DEF RecordLocked, IInv, TypeOK, KeysRead
  <2>2. log' = [m \in DOMAIN log \cup {k} |->
                  IF m = k THEN Plus(Point(log, k), e) ELSE log[m]]
    BY <1>3 DEF RecordLocked, Bump, With
  <2>3. Plus(Point(log, k), e) = [Counts!CountAt(log, k) EXCEPT ![e] = @ + 1]
    BY DEF Plus, Point, Zeros, Counts!CountAt, Counts!None
  <2>4. UNCHANGED <<now, chart>> /\ k \in DOMAIN log'
    BY <1>3, <2>2 DEF RecordLocked
  <2>5. Counts!Count(k, e)
    BY <2>1, <2>2, <2>3, <2>4 DEF Counts!Count
  <2> QED BY <2>1, <2>4, <2>5 DEF Counts!LogNext
<1>4. ASSUME NEW r \in Readers, ReadNow(r)
      PROVE  UNCHANGED Counts!logVars
  BY <1>4 DEF ReadNow
<1>5. ASSUME NEW r \in Readers, PointsLocked(r)
      PROVE  Counts!LogNext
  <2> DEFINE n == asked[r]
  <2>1. n \in Int /\ n <= now /\ UNCHANGED <<now, log, buckets>>
    BY <1>5 DEF PointsLocked, IInv, TypeOK, KeysRead
  <2>2. chart' = [k \in Trailing(n) |-> Point(buckets, k)]
    BY <1>5 DEF PointsLocked
  <2>3. Trailing(n) = Counts!Trailing(n) /\ Trailing(now) = Counts!Trailing(now)
    BY DEF Trailing, Counts!Trailing
  <2> HIDE DEF n
  <2>4. ASSUME NEW k \in Trailing(n)
        PROVE  /\ k \in Trailing(now) => chart'[k] = Counts!CountAt(log, k)
               /\ \A e \in EventTypes :
                    chart'[k][e] \in 0..Counts!CountAt(log, k)[e]
    <3>1. k \in Int /\ chart'[k] = Point(buckets, k)
      BY <2>1, <2>2, WindowAssumption DEF Trailing
    <3>2. Counts!CountAt(log, k) = Point(log, k)
      BY DEF Point, Zeros, Counts!CountAt, Counts!None
    <3>3. k \in Trailing(now) => Point(buckets, k) = Point(log, k)
      BY DEF IInv, WindowExact
    <3>4. ASSUME NEW e \in EventTypes
          PROVE  Point(buckets, k)[e] \in 0..Point(log, k)[e]
      <4>1. /\ Point(buckets, k) \in [EventTypes -> Nat]
            /\ Point(log, k) \in [EventTypes -> Nat]
            /\ Point(buckets, k)[e] <= Point(log, k)[e]
        BY <3>1, PointType DEF IInv, TypeOK, NeverOvercounts
      <4> QED BY <4>1
    <3> QED BY <3>1, <3>2, <3>3, <3>4
  <2>5. n \in DOMAIN chart'
    BY <2>1, <2>2, WindowAssumption DEF Trailing
  <2>6. Counts!Answer(n)
    BY <2>1, <2>2, <2>3, <2>4 DEF Counts!Answer
  <2> QED BY <2>5, <2>6 DEF Counts!LogNext
<1>6. CASE Reset
  BY <1>6 DEF Reset, Counts!LogNext, Counts!Clear
<1>7. CASE UNCHANGED vars
  BY <1>7 DEF vars
<1> QED BY <1>1, <1>2, <1>3, <1>4, <1>5, <1>6, <1>7 DEF Next

\* While the clock never steps back, the counter implements the event log:
\* charts are exact for the window, only a reset forgets (stats.py:19-24).
THEOREM RefinesCountLog ==
  ASSUME ClockNeverStepsBack PROVE Spec => ImplementsCountLog
<1>1. Init => Counts!LogInit
  BY DEF Init, Counts!LogInit
<1>2. IInv /\ [Next]_vars => [Counts!LogNext]_Counts!logVars
  BY StepRefines
<1>3. IInv /\ TypeOK' /\ [Next]_vars => IInv'
  BY Inductive
<1> QED
  BY <1>1, <1>2, <1>3, InitIInv, TypeCorrect, PTL
  DEF Spec, ImplementsCountLog, Counts!LogSpec

-----------------------------------------------------------------------------
(* BucketsBounded: behind the newest bucket m there is at most one leftover *)
(* per thread other than the one that recorded m.                           *)

Newest(m) == m \in DOMAIN buckets /\ \A k \in DOMAIN buckets : k <= m

Leftover(m) == {k \in DOMAIN buckets : k <= m - Window}

\* Threads that are about to record so far in the past.
Late(m) == {t \in DOMAIN pending : pending[t].key <= m - Window}

Behind(m) == /\ Newest(m) /\ IsFiniteSet(Leftover(m))
             /\ Cardinality(Leftover(m)) + Cardinality(Late(m)) <= Cardinality(Threads) - 1

FewBehind == DOMAIN buckets = {} \/ \E m \in Int : Behind(m)

\* Subsets of finite sets, as they are used here.
LEMMA Fewer ==
  ASSUME NEW S, NEW T, IsFiniteSet(S), T \subseteq S
  PROVE  /\ IsFiniteSet(T) /\ Cardinality(T) \in Nat /\ Cardinality(S) \in Nat
         /\ Cardinality(T) <= Cardinality(S)
BY FS_Subset, FS_CardinalityType

\* The thread that records the newest minute is not late.
LEMMA OthersLate ==
  ASSUME IsFiniteSet(Threads), NEW t \in Threads, NEW late, late \subseteq Threads \ {t}
  PROVE  Cardinality(late) <= Cardinality(Threads) - 1
<1>1. IsFiniteSet(Threads \ {t}) /\ Cardinality(Threads \ {t}) = Cardinality(Threads) - 1
  BY FS_RemoveElement
<1> QED BY <1>1, Fewer

LEMMA RecordBounded ==
  ASSUME IsFiniteSet(Threads), IInv, FewBehind, NEW t \in Threads, RecordLocked(t)
  PROVE  FewBehind'
<1>0. PICK k \in Int : t \in DOMAIN pending /\ pending[t].key = k
  BY DEF RecordLocked, IInv, TypeOK
<1> DEFINE gone == IF k \in DOMAIN buckets THEN {} ELSE Expired(k)
<1>1. /\ t \in DOMAIN pending /\ pending' = Without(pending, {t})
      /\ buckets' = Bump(Without(buckets, gone), k, pending[t].event)
  BY <1>0 DEF RecordLocked
<1>2. /\ k \in Int /\ Window \in Nat \ {0}
      /\ DOMAIN buckets \subseteq Int /\ DOMAIN pending \subseteq Threads
      /\ \A u \in DOMAIN pending : pending[u].key \in Int
  BY <1>1, WindowAssumption DEF IInv, TypeOK, IsTable
<1>3. /\ DOMAIN pending' = DOMAIN pending \ {t}
      /\ \A u \in DOMAIN pending' : pending'[u] = pending[u]
  BY <1>1 DEF Without
<1>4. DOMAIN buckets' = (DOMAIN buckets \ gone) \cup {k}
  BY <1>1 DEF Bump, With, Without
<1>5. gone = IF k \in DOMAIN buckets THEN {} ELSE {j \in DOMAIN buckets : k - j >= Window}
  BY DEF Expired
<1>6. \A m \in Int : Late(m)' = Late(m) \ {t} /\ Late(m) \subseteq Threads
  BY <1>2, <1>3 DEF Late
<1> HIDE DEF gone
<1>7. ASSUME k \notin DOMAIN buckets, \A j \in DOMAIN buckets : j < k PROVE FewBehind'
  <2>1. Leftover(k)' = {} /\ Newest(k)'
    BY <1>2, <1>4, <1>5, <1>7 DEF Leftover, Newest
  <2>2. Cardinality(Late(k)') <= Cardinality(Threads) - 1
    BY <1>2, <1>6, OthersLate
  <2>3. Cardinality(Late(k)') \in Nat
    BY <1>2, <1>6, Fewer
  <2>4. Behind(k)'
    BY <2>1, <2>2, <2>3, FS_EmptySet, FS_CardinalityType DEF Behind
  <2> QED BY <1>2, <2>4 DEF FewBehind
<1>8. ASSUME NEW m \in Int, Behind(m), k <= m PROVE FewBehind'
  <2>1. Newest(m)'
    BY <1>2, <1>4, <1>5, <1>8 DEF Newest, Behind
  <2>2. IsFiniteSet(Late(m)) /\ IsFiniteSet(Leftover(m))
    BY <1>6, <1>8, Fewer DEF Behind
  <2>3. /\ Cardinality(Late(m)) \in Nat /\ Cardinality(Leftover(m)) \in Nat
        /\ Cardinality(Threads) \in Nat
    BY <2>2, FS_CardinalityType
  <2>4. CASE k > m - Window
    <3>1. Leftover(m)' \subseteq Leftover(m) /\ Late(m)' \subseteq Late(m)
      BY <1>2, <1>4, <1>6, <2>4 DEF Leftover
    <3>2. /\ IsFiniteSet(Leftover(m)') /\ Cardinality(Leftover(m)') \in Nat
          /\ Cardinality(Leftover(m)') <= Cardinality(Leftover(m))
          /\ Cardinality(Late(m)') \in Nat /\ Cardinality(Late(m)') <= Cardinality(Late(m))
      BY <2>2, <3>1, Fewer
    <3>3. Behind(m)'
      BY <1>8, <2>1, <2>3, <3>2 DEF Behind
    <3> QED BY <3>3 DEF FewBehind
  <2>5. CASE k <= m - Window
    <3>1. t \in Late(m)
      BY <1>0, <2>5 DEF Late
    <3>2. Cardinality(Late(m)') = Cardinality(Late(m)) - 1
      BY <1>6, <2>2, <3>1, FS_RemoveElement
    <3>3. Leftover(m)' \subseteq Leftover(m) \cup {k}
      BY <1>4 DEF Leftover
    <3>4. /\ IsFiniteSet(Leftover(m) \cup {k})
          /\ Cardinality(Leftover(m) \cup {k}) <= Cardinality(Leftover(m)) + 1
      <4>1. /\ IsFiniteSet(Leftover(m) \cup {k})
            /\ Cardinality(Leftover(m) \cup {k}) =
                 IF k \in Leftover(m) THEN Cardinality(Leftover(m))
                                     ELSE Cardinality(Leftover(m)) + 1
        BY <2>2, FS_AddElement
      <4> QED BY <2>3, <4>1
    <3>5. /\ IsFiniteSet(Leftover(m)') /\ Cardinality(Leftover(m)') \in Nat
          /\ Cardinality(Leftover(m)') <= Cardinality(Leftover(m)) + 1
      BY <2>3, <3>3, <3>4, Fewer, FS_CardinalityType
    <3>6. Behind(m)'
      BY <1>8, <2>1, <2>3, <3>2, <3>5 DEF Behind
    <3> QED BY <3>6 DEF FewBehind
  <2> QED BY <1>2, <2>4, <2>5
<1>9. CASE DOMAIN buckets = {}
  BY <1>7, <1>9
<1>10. ASSUME NEW m \in Int, Behind(m), k > m PROVE FewBehind'
  <2>1. k \notin DOMAIN buckets /\ \A j \in DOMAIN buckets : j < k
    BY <1>2, <1>10 DEF Behind, Newest
  <2> QED BY <1>7, <2>1
<1> QED BY <1>2, <1>8, <1>9, <1>10 DEF FewBehind

LEMMA BoundedStep ==
  ASSUME IsFiniteSet(Threads), IInv, FewBehind, [Next]_vars PROVE FewBehind'
<1>1. ASSUME NEW t \in Threads, NEW e \in EventTypes, ReadKey(t, e) PROVE FewBehind'
  <2>1. ASSUME NEW m \in Int, Behind(m) PROVE Behind(m)'
    <3>1. m <= now /\ now \in Int /\ Window \in Nat \ {0}
      BY <2>1, WindowAssumption DEF Behind, Newest, IInv, TypeOK, NothingAhead
    <3>2. /\ buckets' = buckets /\ DOMAIN pending' = DOMAIN pending \cup {t}
          /\ t \notin DOMAIN pending /\ pending'[t].key = now
          /\ \A u \in DOMAIN pending : pending'[u] = pending[u]
      BY <1>1 DEF ReadKey, With
    <3>3. Late(m)' = Late(m)
      BY <3>1, <3>2 DEF Late
    <3> QED BY <2>1, <3>2, <3>3 DEF Behind, Newest, Leftover
  <2>2. buckets' = buckets
    BY <1>1 DEF ReadKey
  <2> QED BY <2>1, <2>2 DEF FewBehind
<1>2. ASSUME NEW t \in Threads, RecordLocked(t) PROVE FewBehind'
  BY <1>2, RecordBounded
<1>3. CASE Reset
  BY <1>3 DEF Reset, FewBehind
<1>4. CASE Tick \/ (\E r \in Readers : ReadNow(r) \/ PointsLocked(r)) \/ UNCHANGED vars
  <2>1. UNCHANGED <<buckets, pending>>
    BY <1>4 DEF Tick, ReadNow, PointsLocked, vars
  <2> QED BY <2>1 DEF FewBehind, Behind, Newest, Leftover, Late
<1> QED BY <1>1, <1>2, <1>3, <1>4 DEF Next

\* The dict cannot grow without bound, for any window and number of threads,
\* although a late record recreates minutes that were evicted (stats.py:40-46,
\* 64-66).
THEOREM BucketsStayBounded ==
  ASSUME ClockNeverStepsBack, IsFiniteSet(Threads) PROVE Spec => []BucketsBounded
<1>1. IInv /\ TypeOK' /\ [Next]_vars => IInv'
  BY Inductive
<1>2. IInv /\ FewBehind /\ [Next]_vars => FewBehind'
  BY BoundedStep
<1>3. Init => FewBehind
  BY DEF Init, FewBehind
<1>4. TypeOK /\ FewBehind => BucketsBounded
  <2> SUFFICES ASSUME TypeOK, FewBehind
               PROVE  Cardinality(DOMAIN buckets) <= Window + Cardinality(Threads) - 1
    BY DEF BucketsBounded
  <2>1. Cardinality(Threads) \in Nat /\ Window \in Nat \ {0} /\ DOMAIN buckets \subseteq Int
    BY FS_CardinalityType, WindowAssumption DEF TypeOK, IsTable
  <2>2. CASE DOMAIN buckets = {}
    BY <2>1, <2>2, FS_EmptySet
  <2>3. ASSUME NEW m \in Int, Behind(m)
        PROVE  Cardinality(DOMAIN buckets) <= Window + Cardinality(Threads) - 1
    <3> DEFINE near == (m - Window + 1)..m
               all == Leftover(m) \cup near
    <3>1. IsFiniteSet(near) /\ Cardinality(near) = Window
      BY <2>1, FS_Interval
    <3>2. DOMAIN buckets \subseteq all
      BY <2>1, <2>3 DEF Behind, Newest, Leftover
    <3>3. IsFiniteSet(Leftover(m)) /\ Cardinality(Leftover(m)) \in Nat
      BY <2>3, FS_CardinalityType DEF Behind
    <3> HIDE DEF near
    <3>4. IsFiniteSet(all) /\ Cardinality(Leftover(m) \cap near) \in Nat
          /\ Cardinality(all) = Cardinality(Leftover(m)) + Cardinality(near)
                                - Cardinality(Leftover(m) \cap near)
      BY <3>1, <3>3, FS_Union, Fewer
    <3> HIDE DEF all
    <3>5. Cardinality(DOMAIN buckets) <= Cardinality(all) /\ Cardinality(all) \in Nat
          /\ Cardinality(DOMAIN buckets) \in Nat
      BY <3>2, <3>4, Fewer
    <3>6. Late(m) \subseteq Threads
      BY DEF Late, TypeOK
    <3>7. Cardinality(Late(m)) \in Nat
      BY <3>6, Fewer
    <3>8. Cardinality(Leftover(m)) + Cardinality(Late(m)) <= Cardinality(Threads) - 1
      BY <2>3 DEF Behind
    <3> QED BY <2>1, <3>1, <3>3, <3>4, <3>5, <3>7, <3>8
  <2> QED BY <2>2, <2>3 DEF FewBehind
<1> QED BY <1>1, <1>2, <1>3, <1>4, InitIInv, TypeCorrect, PTL DEF Spec, IInv
=============================================================================
