--------------------------- MODULE MinuteCounter ----------------------------
(***************************************************************************)
(* app/stats.py: per-minute event counts over a rolling wall-clock window. *)
(*                                                                         *)
(* Poller and MQTT threads call record, request threads call snapshot, and *)
(* a source switch calls reset.  record and snapshot both read the clock   *)
(* BEFORE they take the lock, so each of them is two steps here; what is   *)
(* done under self._lock is one step.                                      *)
(***************************************************************************)
EXTENDS Integers, FiniteSets

CONSTANTS Window,      \* window_minutes, the same for eviction and snapshot
          EventTypes,  \* EVENT_TYPES
          Threads,     \* threads that may be inside record
          Readers,     \* request threads that may be inside snapshot
          ClockSteps,  \* minutes by which the wall clock may move in one step
          MaxMinute,   \* bound: the clock stays in -MaxMinute..MaxMinute
          MaxEvents    \* bound: events recorded in a behaviour

ASSUME WindowAssumption == Window \in Nat \ {0}
ASSUME ClockAssumption == ClockSteps \subseteq Int

VARIABLES now,      \* _minute_key(clock()), counted from the start of the process
          buckets,  \* _buckets: a dict from minute keys to counts
          pending,  \* record calls past the clock read: thread |-> [key, event]
          asked,    \* snapshot calls past the clock read: reader |-> now_key
          chart,    \* the points of the snapshot that returned last
          log,      \* history: every event since the last reset, never evicted
          recorded  \* history: how many events were recorded (for MaxEvents)

vars == <<now, buckets, pending, asked, chart, log, recorded>>

Zeros == [e \in EventTypes |-> 0]          \* dict.fromkeys(EVENT_TYPES, 0)

\* _point_locked: a minute without a bucket is zero-filled.
Point(table, k) == IF k \in DOMAIN table THEN table[k] ELSE Zeros

\* The keys that snapshot(window_minutes) walks when it read now_key n.
Trailing(n) == (n - Window + 1)..n

With(table, k, v) ==
  [m \in DOMAIN table \cup {k} |-> IF m = k THEN v ELSE table[m]]

Without(table, gone) == [m \in DOMAIN table \ gone |-> table[m]]

\* Mutant: a new bucket holds only the kind of event that created it.
BumpPartial(table, k, e) ==
  With(table, k, IF k \in DOMAIN table THEN [table[k] EXCEPT ![e] = @ + 1]
                                       ELSE [kind \in {e} |-> 1])

\* bucket[event_type] += 1, in a bucket created when there was none.
Plus(counts, e) == [counts EXCEPT ![e] = @ + 1]
Bump(table, k, e) == With(table, k, Plus(Point(table, k), e))

\* Mutants: an off-by-one, and eviction of the minute that just expired only.
ExpiredEarly(key) == {k \in DOMAIN buckets : key - k >= Window - 1}
ExpiredJustNow(key) == {k \in DOMAIN buckets : key - k = Window}

\* _evict_locked, called only when record creates a bucket.
Expired(key) == {k \in DOMAIN buckets : key - k >= Window}

Init ==
  /\ now = 0
  /\ buckets = << >>
  /\ pending = << >>
  /\ asked = << >>
  /\ chart = << >>
  /\ log = << >>
  /\ recorded = 0

\* The wall clock moves.  ClockSteps = {1} is an ordinary clock; a negative
\* or a large step is an NTP correction or a manual change.
Tick ==
  \E d \in ClockSteps :
    /\ now + d \in -MaxMinute..MaxMinute
    /\ now' = now + d
    /\ UNCHANGED <<buckets, pending, asked, chart, log, recorded>>

\* record, line 39: the key is read outside the lock.
ReadKey(t, e) ==
  /\ t \notin DOMAIN pending
  /\ recorded < MaxEvents
  /\ recorded' = recorded + 1
  /\ pending' = With(pending, t, [key |-> now, event |-> e])
  /\ UNCHANGED <<now, buckets, asked, chart, log>>

\* record, lines 40-46: under the lock.
RecordLocked(t) ==
  /\ t \in DOMAIN pending
  /\ LET k == pending[t].key
         gone == IF k \in DOMAIN buckets THEN {} ELSE Expired(k)
     IN  /\ buckets' = Bump(Without(buckets, gone), k, pending[t].event)
         /\ log' = Bump(log, k, pending[t].event)
  /\ pending' = Without(pending, {t})
  /\ UNCHANGED <<now, asked, chart, recorded>>

\* snapshot, line 52: now_key is read outside the lock.
ReadNow(r) ==
  /\ r \notin DOMAIN asked
  /\ asked' = With(asked, r, now)
  /\ UNCHANGED <<now, buckets, pending, chart, log, recorded>>

\* Mutant: a minute without a bucket repeats the newest one instead of zeros.
PointsUnzeroed(r) ==
  /\ r \in DOMAIN asked
  /\ chart' = [k \in Trailing(asked[r]) |->
                 Point(buckets, IF k \in DOMAIN buckets THEN k ELSE asked[r])]
  /\ asked' = Without(asked, {r})
  /\ UNCHANGED <<now, buckets, pending, log, recorded>>

\* snapshot, lines 53-57: under the lock.
PointsLocked(r) ==
  /\ r \in DOMAIN asked
  /\ chart' = [k \in Trailing(asked[r]) |-> Point(buckets, k)]
  /\ asked' = Without(asked, {r})
  /\ UNCHANGED <<now, buckets, pending, log, recorded>>

Reset ==
  /\ buckets' = << >>
  /\ log' = << >>
  /\ UNCHANGED <<now, pending, asked, chart, recorded>>

Next ==
  \/ Tick
  \/ \E t \in Threads, e \in EventTypes : ReadKey(t, e)
  \/ \E t \in Threads : RecordLocked(t)
  \/ \E r \in Readers : ReadNow(r)
  \/ \E r \in Readers : PointsLocked(r)
  \/ Reset

Spec == Init /\ [][Next]_vars
-----------------------------------------------------------------------------
IsTable(table) ==
  /\ DOMAIN table \subseteq Int
  /\ \A k \in DOMAIN table : table[k] \in [EventTypes -> Nat]

\* Type invariant of the counter: buckets, history and chart are tables from
\* minutes to one count per kind of event; a call in progress holds its key.
TypeOK ==
  /\ now \in Int
  /\ IsTable(buckets)
  /\ IsTable(log)
  /\ IsTable(chart)
  /\ DOMAIN pending \subseteq Threads
  /\ \A t \in DOMAIN pending : pending[t] \in [key : Int, event : EventTypes]
  /\ DOMAIN asked \subseteq Readers
  /\ \A r \in DOMAIN asked : asked[r] \in Int
  /\ recorded \in Nat

\* No minute that the dashboard can show now has lost or gained an event: an
\* eviction by any thread, whatever minute it read before it got the lock,
\* spares the whole window (stats.py:40-46, 64-66).
WindowExact == \A k \in Trailing(now) : Point(buckets, k) = Point(log, k)

\* Eviction runs only when a bucket is created, and a late record recreates
\* an expired minute; still at most one such leftover per other thread piles
\* up beyond the window, so the dict cannot grow without bound.
BucketsBounded ==
  Cardinality(DOMAIN buckets) <= Window + Cardinality(Threads) - 1

\* The counter is an event log that answers exactly for the trailing window
\* and forgets only on reset (stats.py:19-24: thread-safe, zero-filled).
Counts == INSTANCE CountLog WITH answer <- chart
ImplementsCountLog == Counts!LogSpec

\* The design accepts clock jumps: "at worst a few counts land in the wrong
\* minute bucket".  log puts every event in the minute the clock showed, so
\* this says that a jump never LOSES a count of a minute on display.
ClockJumpOnlyMisplaces == WindowExact
=============================================================================
