---------------------------- MODULE OeeRecorder -----------------------------
(***************************************************************************)
(* app/recorder.py: the recorder process around OeeEngine.  One thread     *)
(* polls the PLC, writes a row when one is due, sleeps, and starts over;   *)
(* around it the PLC link drops, the database goes away, the process is    *)
(* killed and started again, and time passes.                              *)
(*                                                                         *)
(* Reading the image and feeding it to the engine is one step: nothing     *)
(* else runs in the process between them.  Connecting, and an insert, may  *)
(* block, so the world may change before they end.                         *)
(***************************************************************************)
EXTENDS OeeEngine

CONSTANTS WriteInterval,  \* write_interval_s
          MaxParts,       \* bound: B3 edges in one life of the process
          MaxCrashes      \* bound: crashes and failed starts

ASSUME WriteIntervalAssumption == WriteInterval \in Nat \ {0}

VARIABLES pc,         \* where the recorder's thread is
          connected,  \* _connected
          client,     \* the reader's snap7 client: "none", "open" or "broken"
          lastWrite,  \* _last_write
          writeAt,    \* maybe_write's local now
          link,       \* environment: the PLC can be reached
          db,         \* environment: PostgreSQL can be reached
          now,        \* environment: time.monotonic()
          row,        \* the last row committed to table oee, or None
          unsaved,    \* history: a sample was read since the last commit
          upTime,     \* history: time with the link up, in this life
          crashes     \* history: for MaxCrashes

tally == <<counts, times>>
recorderVars == <<connected, client, lastWrite, writeAt>>
worldVars == <<link, db, now>>
ghostVars == <<row, unsaved, upTime, crashes>>
vars == <<engineVars, pc, recorderVars, worldVars, ghostVars>>

\* float("-inf"): the first row is always due.
Never == -WriteInterval

Running == {"poll", "read", "write", "insert"}

RecorderInit ==
  /\ connected = FALSE /\ client = "none"
  /\ lastWrite = Never /\ writeAt = 0

Init ==
  /\ EngineInit
  /\ pc = "start"
  /\ RecorderInit
  /\ link \in BOOLEAN /\ db \in BOOLEAN /\ now = 0
  /\ row = None /\ unsaved = FALSE /\ upTime = 0 /\ crashes = 0

-----------------------------------------------------------------------------
\* main: ensure_oee_schema must reach the database or the process ends.
EnsureSchema ==
  /\ pc = "start" /\ db
  /\ pc' = "poll"
  /\ UNCHANGED <<engineVars, recorderVars, worldVars, ghostVars>>

\* The process dies: with the database away at the start, or killed anywhere.
Crash ==
  /\ pc /= "dead" /\ crashes < MaxCrashes
  /\ crashes' = crashes + 1
  /\ pc' = "dead"
  /\ UNCHANGED <<engineVars, recorderVars, worldVars, row, unsaved, upTime>>

Restart ==
  /\ pc = "dead"
  /\ Recreate
  /\ pc' = "start"
  /\ connected' = FALSE /\ client' = "none"
  /\ lastWrite' = Never /\ writeAt' = 0
  /\ unsaved' = FALSE /\ upTime' = 0
  /\ UNCHANGED <<worldVars, row, crashes>>

\* poll_once, lines 53-54: an open connection is kept.
KeepConnection ==
  /\ pc = "poll" /\ connected
  /\ pc' = "read"
  /\ UNCHANGED <<engineVars, recorderVars, worldVars, ghostVars>>

Connect ==
  /\ pc = "poll" /\ ~connected /\ link
  /\ client' = "open" /\ pc' = "read"
  /\ UNCHANGED <<engineVars, connected, lastWrite, writeAt,
                 worldVars, ghostVars>>

\* poll_once, lines 55-58.
Read ==
  /\ pc = "read" /\ client = "open"
  /\ \E raw \in Images :
       /\ ("B3" \in raw => total < MaxParts)
       /\ OnSnapshot(raw, now)
  /\ connected' = TRUE /\ unsaved' = TRUE
  /\ pc' = "write"
  /\ UNCHANGED <<client, lastWrite, writeAt, worldVars,
                 row, upTime, crashes>>

\* Mutant: the failure is not remembered, so the next poll does not connect.
PollFailsUnnoticed ==
  /\ \/ pc = "poll" /\ ~connected /\ ~link
     \/ pc = "read" /\ client /= "open"
  /\ OnDisconnect
  /\ client' = "none"
  /\ pc' = "write"
  /\ UNCHANGED <<connected, lastWrite, writeAt, worldVars, ghostVars>>

\* poll_once, lines 59-68: connecting or reading raised.
PollFails ==
  /\ \/ pc = "poll" /\ ~connected /\ ~link
     \/ pc = "read" /\ client /= "open"
  /\ OnDisconnect
  /\ connected' = FALSE /\ client' = "none"
  /\ pc' = "write"
  /\ UNCHANGED <<lastWrite, writeAt, worldVars, ghostVars>>

\* maybe_write, lines 74-76, and the sleep that ends the iteration.
NotDue ==
  /\ pc = "write" /\ (~connected \/ now - lastWrite < WriteInterval)
  /\ pc' = "poll"
  /\ UNCHANGED <<engineVars, recorderVars, worldVars, ghostVars>>

\* Mutant: a row is due only after the interval has passed.
BeginInsertLate ==
  /\ pc = "write" /\ connected /\ now - lastWrite > WriteInterval
  /\ writeAt' = now
  /\ pc' = "insert"
  /\ UNCHANGED <<engineVars, connected, client, lastWrite, worldVars, ghostVars>>

\* maybe_write, lines 77-79: the insert begins.
BeginInsert ==
  /\ pc = "write" /\ connected /\ now - lastWrite >= WriteInterval
  /\ writeAt' = now
  /\ pc' = "insert"
  /\ UNCHANGED <<engineVars, connected, client, lastWrite, worldVars, ghostVars>>

\* insert_oee_row returned.  The thread that would change the engine is this
\* one, so the figures taken before the insert are still the engine's.
InsertDone ==
  /\ pc = "insert" /\ db
  /\ row' = Metrics /\ unsaved' = FALSE
  /\ lastWrite' = writeAt
  /\ pc' = "poll"
  /\ UNCHANGED <<engineVars, connected, client, writeAt, worldVars,
                 upTime, crashes>>

\* insert_oee_row raised and nothing was stored.
InsertFails ==
  /\ pc = "insert" /\ ~db
  /\ pc' = "poll"
  /\ UNCHANGED <<engineVars, recorderVars, worldVars, ghostVars>>

\* The row was committed but the database went away before it said so: the
\* recorder takes it for a failure and writes again at the next poll.
InsertUnacknowledged ==
  /\ pc = "insert" /\ db
  /\ db' = FALSE
  /\ row' = Metrics /\ unsaved' = FALSE
  /\ pc' = "poll"
  /\ UNCHANGED <<engineVars, recorderVars, link, now, upTime, crashes>>

-----------------------------------------------------------------------------
\* A session does not survive the loss of the link.
LinkDrops ==
  /\ link
  /\ link' = FALSE
  /\ client' = IF client = "open" THEN "broken" ELSE client
  /\ UNCHANGED <<engineVars, pc, connected, lastWrite, writeAt,
                 db, now, ghostVars>>

LinkReturns ==
  /\ ~link
  /\ link' = TRUE
  /\ UNCHANGED <<engineVars, pc, recorderVars, db, now, ghostVars>>

DatabaseChanges ==
  /\ db' = ~db
  /\ UNCHANGED <<engineVars, pc, recorderVars, link, now, ghostVars>>

Tick ==
  /\ now + 1 \in Times
  /\ now' = now + 1
  /\ upTime' = upTime + One(link)
  /\ UNCHANGED <<engineVars, pc, recorderVars, link, db, row, unsaved, crashes>>

Poll == KeepConnection \/ Connect \/ Read \/ PollFails
Write == NotDue \/ BeginInsert \/ InsertDone \/ InsertFails \/ InsertUnacknowledged
World == LinkDrops \/ LinkReturns \/ DatabaseChanges \/ Tick

Next == EnsureSchema \/ Crash \/ Restart \/ Poll \/ Write \/ World

\* The loop of run never waits for anything that does not end: connecting and
\* inserting have timeouts.  Nothing restarts a dead process by itself.
Fairness == WF_vars(Poll \/ Write)

Spec == Init /\ [][Next]_vars /\ Fairness
-----------------------------------------------------------------------------
Ratios == {None} \cup (Int \X (Nat \ {0}))

\* Type invariant of the recorder and of the engine it drives.
TypeOK ==
  /\ EngineTypeOK
  /\ pc \in Running \cup {"start", "dead"}
  /\ connected \in BOOLEAN /\ client \in {"none", "open", "broken"}
  /\ lastWrite \in Times \cup {Never} /\ writeAt \in Times
  /\ link \in BOOLEAN /\ db \in BOOLEAN /\ now \in Times
  /\ unsaved \in BOOLEAN /\ upTime \in Nat /\ crashes \in Nat

\* Time is credited only between two samples of one unbroken connection, so
\* run time never exceeds the time the PLC could be reached, however the link
\* drops between, during and after polls (oee.py:73-85, recorder.py:55-65).
RunWithinUpTime == stopS <= runS /\ runS <= upTime

\* While the recorder is disconnected, or the link is down whether or not it
\* has noticed, no count and no time changes, except that a restart begins
\* from zero (oee-recording "Pause on disconnect"; recorder.py:59-63).
PausedWhileDown ==
  [][~connected \/ ~link => UNCHANGED tally \/ Recreate]_vars

\* A row is written only from a sample that no row holds yet and that was
\* read over a live session in the same iteration, so an outage is never
\* filled with frozen duplicates (recorder.py:70-76).
InsertsAreFresh == pc = "insert" => connected /\ ~baseline /\ unsaved

\* Every row stored has an availability and a quality within 0..100 percent,
\* and an OEE exactly when it has a quality (oee.py:129-136).
Share(ratio) == ratio = None \/ (0 <= ratio[1] /\ ratio[1] <= ratio[2])

RowsInRange ==
  row /= None =>
    /\ Share(row.availability) /\ Share(row.quality)
    /\ (row.quality = None) = (row.oee = None)
    /\ row.availability = None => row.oee = None

\* Once the link stays up, a running recorder ends up connected over a session
\* that works, whatever it believed when the link came back
\* (recorder.py:53-68, 100-105).
Reconnects ==
  <>[](link /\ pc \in Running) => <>[](connected /\ client = "open")

\* Once link and database stay up, every due row is eventually stored: an
\* insert that failed, or whose answer was lost, is tried again at the next
\* poll and stops neither polling nor later inserts (recorder.py:86-89).
InsertsResume ==
  <>[](link /\ db /\ pc \in Running) => []<>(now - lastWrite < WriteInterval)
=============================================================================
