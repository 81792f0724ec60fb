------------------------------ MODULE CountLog ------------------------------
(***************************************************************************)
(* What app/stats.py promises, without buckets, locks or eviction: a log   *)
(* of how many events fell into each minute since the last reset, and      *)
(* answers that are exact for every minute the trailing window covers.     *)
(***************************************************************************)
EXTENDS Integers

CONSTANTS Window,      \* minutes an answer covers
          EventTypes   \* the kinds of event that are counted

VARIABLES now,    \* the current minute
          log,    \* minute |-> kind |-> events counted since the last reset
          answer  \* the answer last given: minute |-> kind |-> count

logVars == <<now, log, answer>>

None == [e \in EventTypes |-> 0]

\* A partial table of counts, read with zeros where it has no row.
CountAt(table, k) == IF k \in DOMAIN table THEN table[k] ELSE None

\* The minutes a chart whose newest point is minute n covers.
Trailing(n) == (n - Window + 1)..n

LogInit == now = 0 /\ log = << >> /\ answer = << >>

Advance == now' > now /\ UNCHANGED <<log, answer>>

\* One event of some kind lands in the minute it happened in, even when it
\* is counted later than that.
Count(k, e) ==
  /\ k <= now
  /\ log' = [m \in DOMAIN log \cup {k} |->
               IF m = k THEN [CountAt(log, k) EXCEPT ![e] = @ + 1] ELSE log[m]]
  /\ UNCHANGED <<now, answer>>

Clear == log' = << >> /\ UNCHANGED <<now, answer>>

\* A chart that was asked for in minute n: exact for every minute that is
\* still in the window when it is drawn; a minute that has left the window
\* meanwhile never shows more than was counted in it.
Answer(n) ==
  /\ n <= now
  /\ DOMAIN answer' = Trailing(n)
  /\ \A k \in Trailing(n) :
       /\ k \in Trailing(now) => answer'[k] = CountAt(log, k)
       /\ \A e \in EventTypes : answer'[k][e] \in 0..CountAt(log, k)[e]
  /\ UNCHANGED <<now, log>>

LogNext ==
  \/ Advance
  \/ \E k \in DOMAIN log', e \in EventTypes : Count(k, e)
  \/ Clear
  \/ \E n \in DOMAIN answer' : Answer(n)

LogSpec == LogInit /\ [][LogNext]_logVars
=============================================================================
