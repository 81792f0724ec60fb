-------------------------- MODULE OeeRecorderProofs -------------------------
(***************************************************************************)
(* Proofs about the OEE engine under any caller, and about the recorder    *)
(* that drives it, for every set of images and instants, every ideal cycle *)
(* time and every write interval.                                          *)
(***************************************************************************)
EXTENDS OeeRecorder, TLAPS

EngineInv == EngineTypeOK /\ CountsBalance /\ StopWithinRun

-----------------------------------------------------------------------------
(* The engine's methods, one lemma each. *)

LEMMA LatchedType ==
  ASSUME EngineTypeOK, NEW raw, Rising("B3", raw) \/ openCycle /= None
  PROVE  Latched(raw) \in Latches
BY DEF EngineTypeOK, Latched, Latches

\* Counting one sample keeps the books balanced, whatever edges it shows.
LEMMA CountBalances ==
  ASSUME EngineTypeOK, CountsBalance, NEW raw, Count(raw)
  PROVE  /\ good' \in Nat /\ bad' \in Nat /\ inFlight' \in Nat /\ total' \in Nat
         /\ openCycle' \in Latches \cup {None}
         /\ CountsBalance'
<1> DEFINE enters    == Rising("B3", raw)
           overtaken == enters /\ openCycle /= None
           open      == enters \/ openCycle /= None
           finishes  == open /\ Rising("B1", raw)
           clean     == Latched(raw).b2 /\ ~Latched(raw).b4
<1>1. /\ good' = good + One(finishes /\ clean)
      /\ bad' = bad + One(overtaken) + One(finishes /\ ~clean)
      /\ total' = total + One(enters)
      /\ inFlight' = inFlight - One(overtaken) + One(enters) - One(finishes)
      /\ openCycle' = IF open /\ ~finishes THEN Latched(raw) ELSE None
  BY DEF Count
<1>2. openCycle' \in Latches \cup {None}
  BY <1>1, LatchedType
<1>3. openCycle' /= None <=> open /\ ~finishes
  BY <1>1, LatchedType, NoneAssumption DEF Latches
<1>4. /\ good \in Nat /\ bad \in Nat /\ inFlight \in Nat /\ total \in Nat
      /\ total = good + bad + inFlight
      /\ inFlight = One(openCycle /= None)
  BY DEF EngineTypeOK, CountsBalance
<1>5. inFlight' = One(openCycle' /= None)
  BY <1>1, <1>3, <1>4 DEF One
<1>6. total' = good' + bad' + inFlight'
  BY <1>1, <1>4 DEF One
<1>7. good' \in Nat /\ bad' \in Nat /\ inFlight' \in Nat /\ total' \in Nat
  BY <1>1, <1>4, <1>5 DEF One
<1> QED BY <1>2, <1>5, <1>6, <1>7 DEF CountsBalance

LEMMA OnSnapshotKeeps ==
  ASSUME EngineInv, NEW raw \in Images, NEW t \in Times, OnSnapshot(raw, t)
  PROVE  EngineInv'
<1> USE DEF EngineInv
<1>1. CASE Rebaseline(raw, t)
  BY <1>1 DEF Rebaseline, EngineTypeOK, CountsBalance, StopWithinRun, counts, times
<1>2. CASE Sample(raw, t)
  <2>1. lastTs \in Nat /\ t \in Nat /\ runS \in Nat /\ stopS \in Nat
    BY <1>2, TimesAssumption DEF Sample, EngineTypeOK
  <2>2. runS' \in Nat /\ stopS' \in Nat /\ StopWithinRun'
    BY <1>2, <2>1 DEF Sample, Accrue, StopWithinRun
  <2>3. /\ good' \in Nat /\ bad' \in Nat /\ inFlight' \in Nat /\ total' \in Nat
        /\ openCycle' \in Latches \cup {None}
        /\ CountsBalance'
    BY <1>2, CountBalances DEF Sample
  <2>4. baseline' = baseline /\ lastTs' = t /\ prev' = raw
    BY <1>2 DEF Sample
  <2> QED BY <2>2, <2>3, <2>4 DEF EngineTypeOK
<1> QED BY <1>1, <1>2 DEF OnSnapshot

LEMMA OnDisconnectKeeps ==
  ASSUME EngineInv, OnDisconnect PROVE EngineInv'
BY DEF EngineInv, OnDisconnect, EngineTypeOK, CountsBalance, StopWithinRun,
       counts, times

LEMMA RecreateKeeps ==
  ASSUME Recreate PROVE EngineInv'
BY DEF EngineInv, Recreate, EngineTypeOK, CountsBalance, StopWithinRun, One

LEMMA UnchangedKeeps ==
  ASSUME EngineInv, UNCHANGED engineVars PROVE EngineInv'
BY DEF EngineInv, engineVars, EngineTypeOK, CountsBalance, StopWithinRun,
       counts, times

LEMMA InitKeeps == EngineInit => EngineInv
BY DEF EngineInv, EngineInit, EngineTypeOK, CountsBalance, StopWithinRun, One

\* Whoever calls the engine and in whatever order, its counts balance and its
\* stop time stays within its run time (oee.py:53-116).
THEOREM EngineCorrect == EngineSpec => []EngineInv
<1>1. EngineInv /\ [EngineNext]_engineVars => EngineInv'
  BY OnSnapshotKeeps, OnDisconnectKeeps, RecreateKeeps, UnchangedKeeps
  DEF EngineNext
<1> QED BY <1>1, InitKeeps, PTL DEF EngineSpec

-----------------------------------------------------------------------------
(* The recorder. *)

\* What the loop knows about the engine and its connection.  A recorder that
\* is not connected has asked for a baseline; a session that is open has had
\* the link since it opened, so the time since the last sample is up time.
Credit ==
  /\ client = "open" => link
  /\ ~connected => baseline
  /\ ~baseline => lastTs <= now
  /\ runS <= upTime
  /\ client = "open" /\ ~baseline => runS + (now - lastTs) <= upTime

Fresh ==
  /\ pc = "write" /\ connected => ~baseline /\ unsaved
  /\ InsertsAreFresh

IInv == EngineInv /\ TypeOK /\ Credit /\ Fresh /\ RowsInRange

\* Every step of the recorder is a call of one engine method, or none.
LEMMA StepDrivesEngine ==
  ASSUME TypeOK, [Next]_vars PROVE [EngineNext]_engineVars
<1>1. ASSUME NEW raw \in Images, OnSnapshot(raw, now) PROVE EngineNext
  BY <1>1 DEF TypeOK, EngineNext
<1>2. CASE Poll
  BY <1>1, <1>2 DEF Poll, KeepConnection, Connect, Read, PollFails, EngineNext
<1>3. CASE Write
  BY <1>3 DEF Write, NotDue, BeginInsert, InsertDone, InsertFails,
              InsertUnacknowledged
<1>4. CASE World
  BY <1>4 DEF World, LinkDrops, LinkReturns, DatabaseChanges, Tick
<1>5. CASE EnsureSchema \/ Crash \/ Restart
  BY <1>5 DEF EnsureSchema, Crash, Restart, EngineNext
<1>6. CASE UNCHANGED vars
  BY <1>6 DEF vars
<1> QED BY <1>2, <1>3, <1>4, <1>5, <1>6 DEF Next

LEMMA EngineStepKeeps ==
  ASSUME EngineInv, [EngineNext]_engineVars PROVE EngineInv'
BY OnSnapshotKeeps, OnDisconnectKeeps, RecreateKeeps, UnchangedKeeps
DEF EngineNext

LEMMA TypeStep ==
  ASSUME EngineInv, TypeOK, [Next]_vars PROVE EngineInv' /\ TypeOK'
<1>1. EngineInv'
  BY StepDrivesEngine, EngineStepKeeps
<1>2. EngineTypeOK'
  BY <1>1 DEF EngineInv
<1> USE DEF TypeOK, Running, recorderVars, worldVars, ghostVars
<1>3. CASE Poll
  BY <1>1, <1>2, <1>3 DEF Poll, KeepConnection, Connect, Read, PollFails
<1>4. CASE Write
  BY <1>1, <1>2, <1>4 DEF Write, NotDue, BeginInsert, InsertDone, InsertFails,
                    InsertUnacknowledged
<1>5. CASE World
  <2>1. CASE LinkDrops \/ LinkReturns \/ DatabaseChanges
    BY <1>1, <1>2, <2>1 DEF LinkDrops, LinkReturns, DatabaseChanges
  <2>2. CASE Tick
    <3>1. upTime' \in Nat
      BY <2>2 DEF Tick, One
    <3> QED BY <1>1, <1>2, <2>2, <3>1 DEF Tick
  <2> QED BY <1>5, <2>1, <2>2 DEF World
<1>6. CASE EnsureSchema \/ Crash \/ Restart
  <2>1. CASE EnsureSchema \/ Crash
    BY <1>1, <1>2, <2>1 DEF EnsureSchema, Crash
  <2>2. CASE Restart
    BY <1>1, <1>2, <2>2, TimesAssumption DEF Restart
  <2> QED BY <1>6, <2>1, <2>2
<1>7. CASE UNCHANGED vars
  BY <1>1, <1>2, <1>7 DEF vars
<1> QED BY <1>1, <1>3, <1>4, <1>5, <1>6, <1>7 DEF Next

LEMMA TypeInit == Init => EngineInv /\ TypeOK
BY InitKeeps, TimesAssumption DEF Init, RecorderInit, TypeOK, EngineInv, Running

\* Every reachable state of the recorder is well typed, and the engine's books
\* balance in it (recorder.py:30-98, oee.py:35-116).
THEOREM TypeCorrect == Spec => []TypeOK
<1>1. EngineInv /\ TypeOK /\ [Next]_vars => EngineInv' /\ TypeOK'
  BY TypeStep
<1> QED BY <1>1, TypeInit, PTL DEF Spec

\* No part is lost or counted twice, in the recorder's every state.
THEOREM BooksBalance == Spec => []CountsBalance
<1>1. EngineInv /\ TypeOK /\ [Next]_vars => EngineInv' /\ TypeOK'
  BY TypeStep
<1>2. EngineInv => CountsBalance
  BY DEF EngineInv
<1> QED BY <1>1, <1>2, TypeInit, PTL DEF Spec

\* The recorder is one of the callers the engine allows for.
THEOREM DrivesEngine == Spec => EngineSpec
<1>1. EngineInv /\ TypeOK /\ [Next]_vars => EngineInv' /\ TypeOK'
  BY TypeStep
<1>2. TypeOK /\ [Next]_vars => [EngineNext]_engineVars
  BY StepDrivesEngine
<1>3. Init => EngineInit
  BY DEF Init
<1> QED BY <1>1, <1>2, <1>3, TypeInit, PTL DEF Spec, EngineSpec

-----------------------------------------------------------------------------
(* Time, freshness and rows. *)

\* Reading a sample: time is credited only up to now, and only when the
\* session has been open since the previous sample.
LEMMA ReadCredits ==
  ASSUME EngineInv, TypeOK, Credit, Read PROVE Credit'
<1>1. PICK raw \in Images : OnSnapshot(raw, now)
  BY DEF Read
<1>2. /\ client = "open" /\ client' = client /\ link' = link /\ link
      /\ now' = now /\ upTime' = upTime /\ connected'
  BY DEF Read, Credit, worldVars
<1>3. now \in Nat /\ upTime \in Nat /\ runS \in Nat
  BY TimesAssumption DEF TypeOK, EngineTypeOK
<1>4. ~baseline' /\ lastTs' = now /\ runS' <= upTime
  <2>1. CASE Rebaseline(raw, now)
    BY <2>1 DEF Rebaseline, Credit, times
  <2>2. CASE Sample(raw, now)
    <3>1. lastTs \in Nat /\ lastTs <= now /\ runS + (now - lastTs) <= upTime
      BY <1>2, <2>2, TimesAssumption DEF Sample, Credit, EngineInv, EngineTypeOK
    <3>2. runS' = runS + (now - lastTs)
      BY <1>3, <2>2, <3>1 DEF Sample, Accrue
    <3> QED BY <2>2, <3>1, <3>2 DEF Sample
  <2> QED BY <1>1, <2>1, <2>2 DEF OnSnapshot
<1>5. runS' \in Nat
  <2>1. EngineInv'
    BY <1>1, OnSnapshotKeeps DEF TypeOK
  <2> QED BY <2>1 DEF EngineInv, EngineTypeOK
<1>6. runS' + (now' - lastTs') <= upTime' /\ lastTs' <= now'
  <2>1. now' = now /\ lastTs' = now /\ upTime' = upTime /\ runS' <= upTime
    BY <1>2, <1>4
  <2>2. \A a, b, c \in Nat : a <= b => a + (c - c) <= b /\ c <= c
    OBVIOUS
  <2>3. runS' + (now - now) <= upTime /\ now <= now
    BY <1>3, <1>5, <2>1, <2>2, Zenon
  <2> QED BY <2>1, <2>3, Zenon
<1>7. link' /\ connected' /\ runS' <= upTime'
  BY <1>2, <1>4
<1> QED BY <1>6, <1>7 DEF Credit

LEMMA CreditStep ==
  ASSUME EngineInv, TypeOK, Credit, [Next]_vars PROVE Credit'
<1> USE DEF engineVars, times, recorderVars, worldVars, ghostVars
<1>1. CASE Poll
  <2>1. CASE KeepConnection
    BY <2>1 DEF KeepConnection, Credit
  <2>2. CASE Connect
    BY <2>2 DEF Connect, Credit
  <2>3. CASE Read
    BY <2>3, ReadCredits
  <2>4. CASE PollFails
    BY <2>4 DEF PollFails, OnDisconnect, Credit
  <2> QED BY <1>1, <2>1, <2>2, <2>3, <2>4 DEF Poll
<1>2. CASE Write
  BY <1>2 DEF Write, NotDue, BeginInsert, InsertDone, InsertFails,
              InsertUnacknowledged, Credit
<1>3. CASE LinkDrops \/ LinkReturns \/ DatabaseChanges
  BY <1>3 DEF LinkDrops, LinkReturns, DatabaseChanges, Credit
<1>4. CASE Tick
  <2>1. now' = now + 1 /\ upTime' = upTime + One(link)
        /\ UNCHANGED <<client, link, connected, baseline, lastTs, runS>>
    BY <1>4 DEF Tick
  <2>2. now \in Nat /\ upTime \in Nat /\ runS \in Nat
        /\ (~baseline => lastTs \in Nat)
    BY TimesAssumption DEF TypeOK, EngineTypeOK
  <2>3. CASE link
    BY <2>1, <2>2, <2>3 DEF Credit, One
  <2>4. CASE ~link
    BY <2>1, <2>2, <2>4 DEF Credit, One
  <2> QED BY <2>3, <2>4
<1>5. CASE EnsureSchema \/ Crash
  BY <1>5 DEF EnsureSchema, Crash, Credit
<1>6. CASE Restart
  BY <1>6 DEF Restart, Recreate, Credit
<1>7. CASE UNCHANGED vars
  BY <1>7 DEF vars, Credit
<1> QED BY <1>1, <1>2, <1>3, <1>4, <1>5, <1>6, <1>7 DEF Next, World

LEMMA FreshStep ==
  ASSUME TypeOK, Fresh, [Next]_vars PROVE Fresh'
<1> USE DEF Fresh, InsertsAreFresh, engineVars, recorderVars, worldVars, ghostVars
<1>1. CASE KeepConnection \/ Connect \/ PollFails
  BY <1>1 DEF KeepConnection, Connect, PollFails
<1>2. CASE Read
  <2>1. ~baseline' /\ unsaved' /\ pc' = "write"
    BY <1>2 DEF Read, OnSnapshot, Rebaseline, Sample
  <2> QED BY <2>1
<1>3. CASE Write
  BY <1>3 DEF Write, NotDue, BeginInsert, InsertDone, InsertFails,
              InsertUnacknowledged
<1>4. CASE World
  BY <1>4 DEF World, LinkDrops, LinkReturns, DatabaseChanges, Tick
<1>5. CASE EnsureSchema \/ Crash \/ Restart
  BY <1>5 DEF EnsureSchema, Crash, Restart
<1>6. CASE UNCHANGED vars
  BY <1>6 DEF vars
<1> QED BY <1>1, <1>2, <1>3, <1>4, <1>5, <1>6 DEF Next, Poll

\* The figures of an engine whose books balance are in range.
LEMMA MetricsInRange ==
  ASSUME EngineInv
  PROVE  /\ Share(Metrics.availability) /\ Share(Metrics.quality)
         /\ (Metrics.quality = None) = (Metrics.oee = None)
         /\ Metrics.availability = None => Metrics.oee = None
<1>1. /\ runS \in Nat /\ stopS \in Nat /\ stopS <= runS
      /\ good \in Nat /\ bad \in Nat /\ inFlight \in Nat /\ total \in Nat
      /\ total = good + bad + inFlight
  BY DEF EngineInv, EngineTypeOK, CountsBalance, StopWithinRun
<1>2. Ideal \in Int
  BY IdealAssumption
<1>3. /\ <<runS - stopS, runS>> \in Int \X Int
      /\ <<good, total>> \in Int \X Int
  BY <1>1
<1>4. <<(runS - stopS) * Ideal * good, runS * runS>> \in Int \X Int
  <2>1. (runS - stopS) * Ideal * good \in Int /\ runS * runS \in Int
    BY <1>1, <1>2
  <2> QED BY <2>1
<1>5. Share(Metrics.availability)
  BY <1>1, <1>3 DEF Share, Metrics
<1>6. Share(Metrics.quality)
  BY <1>1, <1>3 DEF Share, Metrics
<1>7. (Metrics.quality = None) = (Metrics.oee = None)
  BY <1>3, <1>4, NoneAssumption DEF Metrics
<1>8. Metrics.availability = None => Metrics.oee = None
  BY <1>1, <1>3, NoneAssumption DEF Metrics
<1> QED BY <1>5, <1>6, <1>7, <1>8

LEMMA RowsStep ==
  ASSUME EngineInv, TypeOK, RowsInRange, [Next]_vars PROVE RowsInRange'
<1>1. CASE row' = row
  BY <1>1 DEF RowsInRange
<1>2. CASE row' = Metrics
  BY <1>2, MetricsInRange DEF RowsInRange
<1>3. row' = row \/ row' = Metrics
  <2> USE DEF ghostVars
  <2>1. CASE Poll
    BY <2>1 DEF Poll, KeepConnection, Connect, Read, PollFails
  <2>2. CASE Write
    BY <2>2 DEF Write, NotDue, BeginInsert, InsertDone, InsertFails,
                InsertUnacknowledged
  <2>3. CASE World
    BY <2>3 DEF World, LinkDrops, LinkReturns, DatabaseChanges, Tick
  <2>4. CASE EnsureSchema \/ Crash \/ Restart
    BY <2>4 DEF EnsureSchema, Crash, Restart
  <2>5. CASE UNCHANGED vars
    BY <2>5 DEF vars
  <2> QED BY <2>1, <2>2, <2>3, <2>4, <2>5 DEF Next
<1> QED BY <1>1, <1>2, <1>3

LEMMA Inductive ==
  (Init => IInv) /\ (IInv /\ [Next]_vars => IInv')
<1>1. Init => IInv
  <2> SUFFICES ASSUME Init PROVE IInv
    OBVIOUS
  <2>1. Credit /\ Fresh /\ RowsInRange
    BY DEF Init, EngineInit, RecorderInit, Credit, Fresh, InsertsAreFresh,
           RowsInRange
  <2> QED BY <2>1, TypeInit DEF IInv
<1>2. IInv /\ [Next]_vars => IInv'
  BY TypeStep, CreditStep, FreshStep, RowsStep DEF IInv
<1> QED BY <1>1, <1>2

\* Run time never exceeds the time the PLC could be reached, and stop time
\* never exceeds run time (oee.py:59-69, 73-85).
THEOREM RunTimeExcludesOutages == Spec => []RunWithinUpTime
<1>1. IInv => RunWithinUpTime
  BY DEF IInv, EngineInv, StopWithinRun, Credit, RunWithinUpTime
<1> QED BY <1>1, Inductive, PTL DEF Spec

\* A row is written only from a sample read in the same iteration over a live
\* session, and never twice from one sample that was stored
\* (recorder.py:70-76).
THEOREM RowsAreNeverFrozen == Spec => []InsertsAreFresh
<1>1. IInv => InsertsAreFresh
  BY DEF IInv, Fresh
<1> QED BY <1>1, Inductive, PTL DEF Spec

\* Every stored row has its shares within 0..100 percent and its NULLs
\* together (oee.py:129-136).
THEOREM StoredRowsInRange == Spec => []RowsInRange
<1>1. IInv => RowsInRange
  BY DEF IInv
<1> QED BY <1>1, Inductive, PTL DEF Spec

\* No count and no time is credited while the PLC is away, noticed or not
\* (recorder.py:59-63).
THEOREM OutagesArePaused == Spec => PausedWhileDown
<1>1. IInv /\ [Next]_vars
        => [~connected \/ ~link => UNCHANGED tally \/ Recreate]_vars
  <2> SUFFICES ASSUME IInv, Next, ~connected \/ ~link
               PROVE  UNCHANGED tally \/ Recreate
    BY DEF vars
  <2> USE DEF engineVars, tally, counts, times
  <2>1. CASE Read
    <3>1. PICK raw \in Images : OnSnapshot(raw, now)
      BY <2>1 DEF Read
    <3>2. baseline
      BY <2>1 DEF Read, IInv, Credit
    <3> QED BY <3>1, <3>2 DEF OnSnapshot, Rebaseline, Sample
  <2>2. CASE KeepConnection \/ Connect \/ PollFails
    BY <2>2 DEF KeepConnection, Connect, PollFails, OnDisconnect
  <2>3. CASE Write
    BY <2>3 DEF Write, NotDue, BeginInsert, InsertDone, InsertFails,
                InsertUnacknowledged
  <2>4. CASE World
    BY <2>4 DEF World, LinkDrops, LinkReturns, DatabaseChanges, Tick
  <2>5. CASE EnsureSchema \/ Crash \/ Restart
    BY <2>5 DEF EnsureSchema, Crash, Restart
  <2> QED BY <2>1, <2>2, <2>3, <2>4, <2>5 DEF Next, Poll
<1> QED BY <1>1, Inductive, PTL DEF Spec, PausedWhileDown
=============================================================================
