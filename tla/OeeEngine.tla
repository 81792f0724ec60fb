----------------------------- MODULE OeeEngine ------------------------------
(***************************************************************************)
(* app/oee.py: the accumulator behind one line's OEE figures.              *)
(*                                                                         *)
(* The engine is fed one sample of the process image per successful poll   *)
(* and is told of every failed one.  Every method holds self._lock for its *)
(* whole body, so a method is a step.  An image is the set of the tags     *)
(* that are TRUE in it; B3 is the start sensor of the belt, B2 the middle  *)
(* one, B4 the metal detector, B1 the finish sensor, P1 the red light.     *)
(***************************************************************************)
EXTENDS Integers

CONSTANTS Images,  \* the images the PLC may show, sets of tags
          Times,   \* instants of the monotonic clock (a bound for TLC)
          Ideal,   \* _ideal_ct, the validated ideal cycle time
          None     \* Python's None

Tags == {"B1", "B2", "B3", "B4", "P1"}

ASSUME ImagesAssumption == Images \subseteq SUBSET Tags
ASSUME TimesAssumption == Times \subseteq Nat /\ 0 \in Times
ASSUME IdealAssumption == Ideal \in Nat \ {0}     \* _validated_ideal
ASSUME NoneAssumption ==
  None \notin [b2 : BOOLEAN, b4 : BOOLEAN] /\ None \notin Int \X Int

VARIABLES baseline,   \* _baseline: the next sample only re-baselines
          lastTs,     \* _last_ts, None before the first sample
          prev,       \* _prev, None before the first sample
          good,       \* _good
          bad,        \* _bad: classified bad only
          inFlight,   \* _in_flight
          total,      \* _total
          openCycle,  \* _open_cycle: None, or the latches b2 and b4
          runS,       \* _run_s
          stopS       \* _stop_s

counts == <<good, bad, inFlight, total, openCycle>>
times == <<runS, stopS>>
engineVars == <<baseline, lastTs, prev, counts, times>>

Latches == [b2 : BOOLEAN, b4 : BOOLEAN]

One(P) == IF P THEN 1 ELSE 0

EngineInit ==
  /\ baseline = TRUE
  /\ lastTs = None /\ prev = None
  /\ good = 0 /\ bad = 0 /\ inFlight = 0 /\ total = 0
  /\ openCycle = None
  /\ runS = 0 /\ stopS = 0

\* The process is started again: a new engine.
Recreate ==
  /\ baseline' = TRUE
  /\ lastTs' = None /\ prev' = None
  /\ good' = 0 /\ bad' = 0 /\ inFlight' = 0 /\ total' = 0
  /\ openCycle' = None
  /\ runS' = 0 /\ stopS' = 0

Rising(tag, raw) == tag \in raw /\ tag \notin prev

\* Mutant: B4 is not latched, only the level at the finish sensor counts.
LatchedB2(raw) ==
  LET from == IF Rising("B3", raw) THEN [b2 |-> FALSE, b4 |-> FALSE] ELSE openCycle
  IN  [b2 |-> from.b2 \/ "B2" \in raw, b4 |-> "B4" \in raw]

\* The latches after a sample: a B3 edge starts afresh, then this sample's B2
\* and B4 are latched (lines 102-109).
Latched(raw) ==
  LET from == IF Rising("B3", raw) THEN [b2 |-> FALSE, b4 |-> FALSE] ELSE openCycle
  IN  [b2 |-> from.b2 \/ "B2" \in raw, b4 |-> from.b4 \/ "B4" \in raw]

\* Mutant: an overtaken part stays in flight.
CountOvertakenInFlight(raw) ==
  LET enters   == Rising("B3", raw)
      overtaken == enters /\ openCycle /= None
      open     == enters \/ openCycle /= None
      finishes == open /\ Rising("B1", raw)
      clean    == Latched(raw).b2 /\ ~Latched(raw).b4
  IN  /\ good' = good + One(finishes /\ clean)
      /\ bad' = bad + One(overtaken) + One(finishes /\ ~clean)
      /\ total' = total + One(enters)
      /\ inFlight' = inFlight + One(enters) - One(finishes)
      /\ openCycle' = IF open /\ ~finishes THEN Latched(raw) ELSE None

\* _count_locked: a B3 edge forces an open cycle to bad and opens a new one,
\* then a B1 edge classifies whatever cycle is open.
Count(raw) ==
  LET enters   == Rising("B3", raw)
      overtaken == enters /\ openCycle /= None
      open     == enters \/ openCycle /= None
      finishes == open /\ Rising("B1", raw)
      clean    == Latched(raw).b2 /\ ~Latched(raw).b4
  IN  /\ good' = good + One(finishes /\ clean)
      /\ bad' = bad + One(overtaken) + One(finishes /\ ~clean)
      /\ total' = total + One(enters)
      /\ inFlight' = inFlight - One(overtaken) + One(enters) - One(finishes)
      /\ openCycle' = IF open /\ ~finishes THEN Latched(raw) ELSE None

\* Mutant: run time is credited only while the red light is off.
AccrueRunOrStop(now) ==
  LET delta == IF now > lastTs THEN now - lastTs ELSE 0
  IN  IF "P1" \in prev THEN stopS' = stopS + delta /\ UNCHANGED runS
                       ELSE runS' = runS + delta /\ UNCHANGED stopS

\* The interval since the previous sample, credited to what held during it.
Accrue(now) ==
  LET delta == IF now > lastTs THEN now - lastTs ELSE 0
  IN  /\ runS' = runS + delta
      /\ stopS' = stopS + (IF "P1" \in prev THEN delta ELSE 0)

\* Mutants: the gap is credited; the time of the baseline is not kept.
RebaselineCredits(raw, now) ==
  /\ baseline
  /\ baseline' = FALSE /\ lastTs' = now /\ prev' = raw
  /\ runS' = runS + (IF lastTs = None THEN 0 ELSE now - lastTs)
  /\ UNCHANGED <<counts, stopS>>

RebaselineKeepsTs(raw, now) ==
  /\ baseline
  /\ baseline' = FALSE /\ prev' = raw
  /\ UNCHANGED <<lastTs, counts, times>>

\* on_snapshot with _baseline set: _rebaseline_locked.
Rebaseline(raw, now) ==
  /\ baseline
  /\ baseline' = FALSE /\ lastTs' = now /\ prev' = raw
  /\ UNCHANGED <<counts, times>>

\* on_snapshot otherwise.
Sample(raw, now) ==
  /\ ~baseline
  /\ Accrue(now)
  /\ Count(raw)
  /\ lastTs' = now /\ prev' = raw
  /\ UNCHANGED baseline

OnSnapshot(raw, now) == Rebaseline(raw, now) \/ Sample(raw, now)

\* Mutant: a failed poll does not ask for a new baseline.
OnDisconnectIgnored == UNCHANGED engineVars

OnDisconnect ==
  /\ baseline' = TRUE
  /\ UNCHANGED <<lastTs, prev, counts, times>>

\* metrics: NULL, or a ratio <<numerator, denominator>> (times 100 percent).
Metrics ==
  [availability |-> IF runS > 0 THEN <<runS - stopS, runS>> ELSE None,
   performance  |-> IF runS > 0 THEN <<Ideal * total, runS>> ELSE None,
   quality      |-> IF runS > 0 /\ total > 0 THEN <<good, total>> ELSE None,
   oee          |-> IF runS > 0 /\ total > 0
                      THEN <<(runS - stopS) * Ideal * good, runS * runS>>
                      ELSE None,
   bad          |-> bad + inFlight]

\* The engine under any caller of its methods.
EngineNext ==
  \/ \E raw \in Images, now \in Times : OnSnapshot(raw, now)
  \/ OnDisconnect
  \/ Recreate

EngineSpec == EngineInit /\ [][EngineNext]_engineVars
-----------------------------------------------------------------------------
\* Type invariant of the engine; a sample can be compared with the previous
\* one (_prev is not None) whenever it is not a baseline.
EngineTypeOK ==
  /\ baseline \in BOOLEAN
  /\ lastTs \in Times \cup {None}
  /\ prev \in Images \cup {None}
  /\ good \in Nat /\ bad \in Nat /\ inFlight \in Nat /\ total \in Nat
  /\ openCycle \in Latches \cup {None}
  /\ runS \in Nat /\ stopS \in Nat
  /\ ~baseline => lastTs \in Times /\ prev \in Images

\* Total = good + bad including in-flight, and a part is in flight exactly
\* while its cycle is open: no part is counted twice or lost, whatever edges
\* a sample merges (oee.py:94-116, metrics' bad at 129).
CountsBalance ==
  /\ total = good + bad + inFlight
  /\ inFlight = One(openCycle /= None)

\* Stop time is part of run time, so availability stays within 0..100
\* percent (oee.py:67-69, 132).
StopWithinRun == stopS <= runS
=============================================================================
