--------------------------- MODULE SourceManager ----------------------------
(***************************************************************************)
(* app/source_manager.py: the active data source and the switch to another *)
(* one, called by POST /api/source (app/main.py select_source), with the   *)
(* threads of the sources and GET /api/stats, which reads what they count. *)
(*                                                                         *)
(* SourceManager has no lock and FastAPI runs its handlers on a thread     *)
(* pool, so a switch is one step per attribute it reads or writes and per  *)
(* call it makes.  A source is a number, in the order they were built; its *)
(* thread is "idle" or "busy", busy from the moment it has an event until  *)
(* on_event (MinuteCounter.record) has returned.                           *)
(***************************************************************************)
EXTENDS Integers, FiniteSets

CONSTANTS Brokers,     \* broker addresses a user may submit
          Requests,    \* request threads that may be inside switch
          Readers,     \* request threads that may be inside get_stats
          MaxSources,  \* bound: sources built in a behaviour
          None         \* Python's None

\* What a source is connected to: the configured PLC, or a broker; Slot is
\* InactiveMqttSource, which has neither a thread nor a broker.
Direct == "direct"
Slot == "slot"
Targets == {Direct, Slot} \cup Brokers

ASSUME BrokersAssumption ==
  {Direct, Slot, None} \cap Brokers = {} /\ None \notin {Direct, Slot}
ASSUME SourcesAssumption == MaxSources \in Nat \ {0}
ASSUME RequestsAssumption == Requests /= {}

Ids == 1..MaxSources

VARIABLES source,     \* _source
          name,       \* _source_name
          broker,     \* _active_broker
          target,     \* what each source built is connected to
          thread,     \* each source's thread: "none", "idle", "busy" or "over"
          asked,      \* sources whose stop was called
          built,      \* number of sources built
          counted,    \* sources with events in the counter since the last reset
          abandoned,  \* history: stopped sources whose join timed out
          pc,         \* where each request is inside switch
          want,       \* the target each request asks for
          new,        \* switch's local new_source
          old,        \* the source each request is stopping
          at,         \* where each reader is inside get_stats
          stats,      \* the connection and points of each reader
          up          \* the server accepts requests

managerVars == <<source, name, broker>>
threadVars == <<thread, asked, abandoned>>
requestVars == <<pc, want, new, old>>
readerVars == <<at, stats>>
vars == <<managerVars, target, threadVars, built, counted, requestVars,
          readerVars, up>>

NameOf(t) == IF t = Direct THEN "direct" ELSE "mqtt"
BrokerOf(t) == IF t \in Brokers THEN t ELSE None

NoStats == [connection |-> None, of |-> 0, points |-> {}, since |-> 0, quiet |-> FALSE]

Quiet == \A r \in Requests : pc[r] = "idle"

\* DATA_SOURCE selects the PLC or the empty MQTT slot; lifespan starts it.
Init ==
  /\ source = 1 /\ built = 1
  /\ \E t \in {Direct, Slot} :
       /\ target = [i \in Ids |-> IF i = 1 THEN t ELSE None]
       /\ thread = [i \in Ids |-> IF i = 1 /\ t = Direct THEN "idle" ELSE "none"]
       /\ name = NameOf(t)
  /\ broker = None
  /\ asked = {} /\ abandoned = {} /\ counted = {}
  /\ pc = [r \in Requests |-> "idle"]
  /\ want = [r \in Requests |-> None]
  /\ new = [r \in Requests |-> None] /\ old = [r \in Requests |-> None]
  /\ at = [r \in Readers |-> "idle"] /\ stats = [r \in Readers |-> NoStats]
  /\ up = TRUE

-----------------------------------------------------------------------------
(* The threads of the sources. *)

\* Mutant: the thread does not look at its stop flag.
NoticeAlways(i) ==
  /\ thread[i] = "idle"
  /\ thread' = [thread EXCEPT ![i] = "busy"]
  /\ UNCHANGED <<managerVars, target, asked, abandoned, built, counted,
                 requestVars, readerVars, up>>

\* An iteration finds an edge; a stopped thread begins no new iteration.
Notice(i) ==
  /\ thread[i] = "idle" /\ i \notin asked
  /\ thread' = [thread EXCEPT ![i] = "busy"]
  /\ UNCHANGED <<managerVars, target, asked, abandoned, built, counted,
                 requestVars, readerVars, up>>

\* on_event: the event is counted, whatever became of the source meanwhile.
Deliver(i) ==
  /\ thread[i] = "busy"
  /\ thread' = [thread EXCEPT ![i] = "idle"]
  /\ counted' = counted \cup {i}
  /\ UNCHANGED <<managerVars, target, asked, abandoned, built, requestVars,
                 readerVars, up>>

End(i) ==
  /\ thread[i] = "idle" /\ i \in asked
  /\ thread' = [thread EXCEPT ![i] = "over"]
  /\ UNCHANGED <<managerVars, target, asked, abandoned, built, counted,
                 requestVars, readerVars, up>>

-----------------------------------------------------------------------------
(* switch, line by line. *)

Goto(r, from, to) == pc[r] = from /\ pc' = [pc EXCEPT ![r] = to]

\* select_source has validated the body: a source name, and a broker for mqtt.
Submit(r, t) ==
  /\ up /\ built < MaxSources
  /\ Goto(r, "idle", "name")
  /\ want' = [want EXCEPT ![r] = t]
  /\ UNCHANGED <<managerVars, target, threadVars, built, counted, new, old,
                 readerVars, up>>

\* Lines 126-130: the name is compared; direct is then already active, and
\* mqtt compares the broker as well.
CompareName(r) ==
  /\ Goto(r, "name", IF name /= NameOf(want[r]) THEN "build"
                     ELSE IF want[r] = Direct THEN "idle" ELSE "broker")
  /\ UNCHANGED <<managerVars, target, threadVars, built, counted, want, new, old,
                 readerVars, up>>

CompareBroker(r) ==
  /\ Goto(r, "broker", IF broker = want[r] THEN "idle" ELSE "build")
  /\ UNCHANGED <<managerVars, target, threadVars, built, counted, want, new, old,
                 readerVars, up>>

\* Lines 132-134: the new source is built and started; its thread runs.
BuildAndStart(r) ==
  /\ built < MaxSources
  /\ Goto(r, "build", "stop")
  /\ built' = built + 1
  /\ new' = [new EXCEPT ![r] = built']
  /\ target' = [target EXCEPT ![built'] = want[r]]
  /\ thread' = [thread EXCEPT ![built'] = "idle"]
  /\ UNCHANGED <<managerVars, asked, abandoned, counted, want, old, readerVars, up>>

\* Mutant: a failed start is logged but not raised.
StartFailsSilently(r) ==
  /\ built < MaxSources
  /\ Goto(r, "build", "stop")
  /\ built' = built + 1
  /\ new' = [new EXCEPT ![r] = built']
  /\ target' = [target EXCEPT ![built'] = want[r]]
  /\ UNCHANGED <<managerVars, threadVars, counted, want, old, readerVars, up>>

\* Lines 132-137: building or starting raised, the request fails.  (Also the
\* end of a request that lost the race for the last source of the bound.)
StartFails(r) ==
  /\ Goto(r, "build", "idle")
  /\ UNCHANGED <<managerVars, target, threadVars, built, counted, want, new, old,
                 readerVars, up>>

\* Mutants of StopOld: the old source is not stopped; it is waited for but
\* not told; it is told but not waited for.
StopOldSkipped(r) ==
  /\ Goto(r, "stop", "source")
  /\ UNCHANGED <<managerVars, target, threadVars, built, counted, want, new, old,
                 readerVars, up>>

StopOldUntold(r) ==
  /\ Goto(r, "stop", "join")
  /\ old' = [old EXCEPT ![r] = source]
  /\ UNCHANGED <<managerVars, target, threadVars, built, counted, want, new,
                 readerVars, up>>

StopOldNoJoin(r) ==
  /\ Goto(r, "stop", "source")
  /\ asked' = asked \cup {source}
  /\ UNCHANGED <<managerVars, target, thread, abandoned, built, counted, want,
                 new, old, readerVars, up>>

\* Line 138: self._source is read and its stop called.
StopOld(r) ==
  /\ Goto(r, "stop", "join")
  /\ old' = [old EXCEPT ![r] = source]
  /\ asked' = asked \cup {source}
  /\ UNCHANGED <<managerVars, target, thread, abandoned, built, counted, want,
                 new, readerVars, up>>

\* PlcPoller.stop and paho's loop_stop join the thread.
Join(r) ==
  /\ Goto(r, "join", "source")
  /\ thread[old[r]] \in {"none", "over"}
  /\ UNCHANGED <<managerVars, target, threadVars, built, counted, want, new, old,
                 readerVars, up>>

\* PlcPoller.stop gives up on a poll that takes more than 5 s.
JoinTimesOut(r) ==
  /\ Goto(r, "join", "source")
  /\ target[old[r]] = Direct /\ thread[old[r]] = "busy"
  /\ abandoned' = abandoned \cup {old[r]}
  /\ UNCHANGED <<managerVars, target, thread, asked, built, counted, want, new, old,
                 readerVars, up>>

\* Lines 139-141.
SetSource(r) ==
  /\ Goto(r, "source", "setName")
  /\ source' = new[r]
  /\ UNCHANGED <<name, broker, target, threadVars, built, counted, want, new, old,
                 readerVars, up>>

\* Mutant: the name is left as it was.
SetNameSkipped(r) ==
  /\ Goto(r, "setName", "setBroker")
  /\ UNCHANGED <<managerVars, target, threadVars, built, counted, want, new, old,
                 readerVars, up>>

SetName(r) ==
  /\ Goto(r, "setName", "setBroker")
  /\ name' = NameOf(want[r])
  /\ UNCHANGED <<source, broker, target, threadVars, built, counted, want, new, old,
                 readerVars, up>>

\* Mutant: the target is kept, also that of the direct source.
SetBrokerAny(r) ==
  /\ Goto(r, "setBroker", "reset")
  /\ broker' = want[r]
  /\ UNCHANGED <<source, name, target, threadVars, built, counted, want, new, old,
                 readerVars, up>>

SetBroker(r) ==
  /\ Goto(r, "setBroker", "reset")
  /\ broker' = BrokerOf(want[r])
  /\ UNCHANGED <<source, name, target, threadVars, built, counted, want, new, old,
                 readerVars, up>>

\* Mutant: the counter is not reset.
FireSkipped(r) ==
  /\ Goto(r, "reset", "idle")
  /\ UNCHANGED <<managerVars, target, threadVars, built, counted, want, new, old,
                 readerVars, up>>

\* Lines 142-144: on_connection_change is counter.reset; the snapshot that
\* is returned changes nothing.
FireConnectionChange(r) ==
  /\ Goto(r, "reset", "idle")
  /\ counted' = {}
  /\ UNCHANGED <<managerVars, target, threadVars, built, want, new, old,
                 readerVars, up>>

\* lifespan's end: no request is left, and the active source is stopped.
Shutdown ==
  /\ up /\ Quiet
  /\ up' = FALSE
  /\ asked' = asked \cup {source}
  /\ UNCHANGED <<managerVars, target, thread, abandoned, built, counted,
                 requestVars, readerVars>>

-----------------------------------------------------------------------------
(* get_stats: connection is read, then the counter.  The points are the   *)
(* sources whose events are shown.  The fields of, since and quiet are     *)
(* history: the source the connection was read from, and whether all reads *)
(* fell between the same two switches.                                     *)

\* The property connection asks self._source for broker and, when that is
\* None, asks self._source again for line_ip, which only the PLC source has.
Stats(r, from, to, fields) ==
  /\ at[r] = from
  /\ at' = [at EXCEPT ![r] = to]
  /\ stats' = [stats EXCEPT ![r] = fields]
  /\ UNCHANGED <<managerVars, target, threadVars, built, counted, requestVars, up>>

ReadBroker(r) ==
  /\ up
  /\ LET b == BrokerOf(target[source])
     IN  Stats(r, "idle", IF b = None THEN "line_ip" ELSE "points",
               [NoStats EXCEPT !.connection = b, !.of = source,
                               !.since = IF Quiet THEN built ELSE 0])

ReadLineIp(r) ==
  Stats(r, "line_ip", "points",
        [stats[r] EXCEPT !.connection = IF target[source] = Direct THEN Direct ELSE None,
                         !.of = source])

ReadPoints(r) ==
  Stats(r, "points", "answered",
        [stats[r] EXCEPT !.points = counted,
                         !.quiet = Quiet /\ stats[r].since = built])

Return(r) == Stats(r, "answered", "idle", NoStats)

Switch(r) ==
  \/ CompareName(r) \/ CompareBroker(r) \/ BuildAndStart(r) \/ StartFails(r)
  \/ StopOld(r) \/ Join(r) \/ JoinTimesOut(r) \/ SetSource(r) \/ SetName(r)
  \/ SetBroker(r) \/ FireConnectionChange(r)

GetStats(r) == ReadBroker(r) \/ ReadLineIp(r) \/ ReadPoints(r) \/ Return(r)

Next ==
  \/ \E i \in Ids : Notice(i) \/ Deliver(i) \/ End(i)
  \/ \E r \in Requests : Switch(r) \/ \E t \in {Direct} \cup Brokers : Submit(r, t)
  \/ \E r \in Readers : GetStats(r)
  \/ Shutdown

\* A request that began goes on, a poll or callback returns sometime, and a
\* thread that was stopped gets to see it.  No edge and no request need come.
Fairness ==
  /\ \A i \in Ids : WF_vars(Deliver(i)) /\ WF_vars(End(i))
  /\ \A r \in Requests : WF_vars(Switch(r))

Spec == Init /\ [][Next]_vars /\ Fairness
-----------------------------------------------------------------------------
\* Type invariant of the manager, its sources and the requests.
TypeOK ==
  /\ source \in Ids /\ built \in Ids
  /\ name \in {"direct", "mqtt"} /\ broker \in Brokers \cup {None}
  /\ target \in [Ids -> Targets \cup {None}]
  /\ thread \in [Ids -> {"none", "idle", "busy", "over"}]
  /\ asked \subseteq Ids /\ abandoned \subseteq Ids /\ counted \subseteq Ids
  /\ pc \in [Requests -> {"idle", "name", "broker", "build", "stop", "join",
                          "source", "setName", "setBroker", "reset"}]
  /\ want \in [Requests -> Targets \cup {None}]
  /\ new \in [Requests -> Ids \cup {None}] /\ old \in [Requests -> Ids \cup {None}]
  /\ at \in [Readers -> {"idle", "line_ip", "points", "answered"}]
  /\ stats \in [Readers -> [connection : Targets \cup {None},
                            of : 0..MaxSources, points : SUBSET Ids,
                            since : 0..MaxSources, quiet : BOOLEAN]]
  /\ up \in BOOLEAN

\* Between switches the active source runs, so a switch that failed to build
\* or start its source left the old one running (source_manager.py:132-137).
SourceIsLive ==
  Quiet /\ up => /\ source \notin asked
                 /\ (thread[source] = "none" <=> target[source] = Slot)

\* Between switches no other source runs, but for a poller whose last poll
\* outlived the join and which will end with it (source_manager.py:138,
\* plc.py:76-79).
OnlyActiveSourceRuns ==
  Quiet => \A i \in Ids \ {source} :
             thread[i] \in {"idle", "busy"} => i \in asked \cap abandoned

\* The name and broker that decide whether a later request is a no-op are
\* those of the source that is active (source_manager.py:128-131, 139-141).
NamesMatchSource ==
  Quiet => /\ name = NameOf(target[source])
           /\ broker = BrokerOf(target[source])

\* After a switch the counter holds nothing of an earlier source, except what
\* a poller delivers whose join timed out (source_manager.py:142,
\* production-statistics "Count reset on connection change").
NoForeignCounts == Quiet => counted \ abandoned \subseteq {source}

\* An answer of /api/stats that no switch overlaps shows the events of the
\* connection it names, and otherwise only what a poller delivered whose join
\* timed out: its late event is counted after the reset and shown under the
\* new connection (main.py:232-241, source_manager.py:171-175, plc.py:79).
QuietStatsMatch ==
  \A r \in Readers : at[r] = "answered" /\ stats[r].quiet =>
    {target[i] : i \in stats[r].points \ abandoned} \subseteq {stats[r].connection}

\* Every request that begins to switch is answered: joining the old source
\* never waits for ever (source_manager.py:121-144).
SwitchEnds == \A r \in Requests : pc[r] /= "idle" ~> pc[r] = "idle"

\* A source that was stopped ends, abandoned or not.
StoppedSourcesEnd ==
  \A i \in Ids : i \in asked ~> thread[i] \in {"none", "over"}

\* production-statistics, "Count reset on connection change": counts of the
\* previous connection "SHALL NOT be shown for or attributed to the new one",
\* here for every answer of /api/stats, also one given during a switch: it
\* shows no counts of a source older than the one it names, not counting the
\* late events of a poller whose join timed out.
StatsMatchConnection ==
  \A r \in Readers : at[r] = "answered" =>
    \A i \in stats[r].points \ abandoned : i >= stats[r].of

\* The design of runtime switching: "one active source at a time", and a
\* "switch storm" is harmless.  Here for requests that overlap.
OneActiveSource == OnlyActiveSourceRuns
=============================================================================
