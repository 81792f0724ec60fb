----------------------------- MODULE PlcPoller ------------------------------
(***************************************************************************)
(* app/plc.py: the direct data source.  A background thread reads the      *)
(* process image, reports rising edges, and publishes the last image to    *)
(* the request threads that call snapshot.                                 *)
(*                                                                         *)
(* The thread writes _connected without the lock; _raw and _timestamp are  *)
(* written, and everything is read, under it.  An image is the set of the  *)
(* tags that are TRUE; only the tags of EVENT_EDGES (app/tags.py) are      *)
(* kept, one event each.  The PLC keeps running while it cannot be reached.*)
(***************************************************************************)
EXTENDS Integers

CONSTANTS Inputs,    \* event tags in the input area (B4)
          Outputs,   \* event tags in the output area (P3)
          Readers,   \* request threads that call snapshot
          MaxRises,  \* bound: tag |-> its rising edges in a behaviour
          None       \* Python's None, and a lock nobody holds

Tags == Inputs \cup Outputs

ASSUME AreasAssumption == Inputs \cap Outputs = {}
ASSUME NoneAssumption ==
  (\A S \in SUBSET Tags : None /= S) /\ None \notin Readers \cup {"thread"}
ASSUME HolderAssumption == "thread" \notin Readers

VARIABLES plc,        \* environment: the tags that are TRUE in the PLC
          link,       \* environment: the PLC can be reached
          client,     \* Snap7Reader._client: "none", "open" or "broken"
          pc,         \* where the poll thread is
          stop,       \* _stop is set
          connected,  \* _connected
          raw,        \* _raw
          stamp,      \* _timestamp, named by the image it was set with
          previous,   \* _previous_raw
          read,       \* the tags whose area this poll has read
          sample,     \* those of them that were TRUE
          pending,    \* events of this poll not yet passed to on_event
          lock,       \* who holds _lock
          at,         \* where each reader is inside snapshot
          reply,      \* the dict each reader is building or returns
          counted,    \* history: on_event calls per tag
          rises,      \* history: rising edges of each tag in the PLC
          heard       \* history: an image of this connection was published

plcVars == <<plc, rises>>
threadVars == <<client, pc, connected, previous, read, sample, pending, counted>>
sharedVars == <<raw, stamp, heard>>
readerVars == <<at, reply>>
vars == <<plcVars, link, threadVars, stop, sharedVars, lock, readerVars>>

NoReply == [connected |-> FALSE, stale |-> TRUE, connecting |-> TRUE,
            last_update |-> None, values |-> None]

Init ==
  /\ plc \in SUBSET Tags /\ link \in BOOLEAN
  /\ client = "none" /\ pc = "head" /\ stop = FALSE
  /\ connected = FALSE /\ raw = None /\ stamp = None /\ previous = None
  /\ read = {} /\ sample = {} /\ pending = {}
  /\ lock = None
  /\ at = [r \in Readers |-> "idle"] /\ reply = [r \in Readers |-> NoReply]
  /\ counted = [t \in Tags |-> 0] /\ rises = [t \in Tags |-> 0]
  /\ heard = FALSE

-----------------------------------------------------------------------------
(* The PLC and the network. *)

TagRises(t) ==
  /\ t \notin plc /\ rises[t] < MaxRises[t]
  /\ plc' = plc \cup {t}
  /\ rises' = [rises EXCEPT ![t] = @ + 1]
  /\ UNCHANGED <<link, threadVars, stop, sharedVars, lock, readerVars>>

TagFalls(t) ==
  /\ t \in plc
  /\ plc' = plc \ {t}
  /\ UNCHANGED <<rises, link, threadVars, stop, sharedVars, lock, readerVars>>

\* A connection does not survive the loss of the link.
LinkDrops ==
  /\ link
  /\ link' = FALSE
  /\ client' = IF client = "open" THEN "broken" ELSE client
  /\ UNCHANGED <<plcVars, pc, connected, previous, read, sample, pending, counted,
                 stop, sharedVars, lock, readerVars>>

LinkReturns ==
  /\ ~link
  /\ link' = TRUE
  /\ UNCHANGED <<plcVars, threadVars, stop, sharedVars, lock, readerVars>>

-----------------------------------------------------------------------------
(* The poll thread: _run. *)

\* Line 106: stop is looked at once per iteration.
Exit ==
  /\ pc = "head" /\ stop
  /\ pc' = "exited"
  /\ UNCHANGED <<plcVars, link, client, connected, previous, read, sample, pending,
                 counted, stop, sharedVars, lock, readerVars>>

\* Mutant: a live connection is polled on without a look at stop.
KeepConnectionOn ==
  /\ pc = "head" /\ raw /= None /\ connected
  /\ pc' = "readInputs"
  /\ UNCHANGED <<plcVars, link, client, connected, previous, read, sample, pending,
                 counted, stop, sharedVars, lock, readerVars>>

KeepConnection ==
  /\ pc = "head" /\ ~stop /\ raw /= None /\ connected
  /\ pc' = "readInputs"
  /\ UNCHANGED <<plcVars, link, client, connected, previous, read, sample, pending,
                 counted, stop, sharedVars, lock, readerVars>>

NeedsConnection ==
  /\ pc = "head" /\ ~stop /\ (raw = None \/ ~connected)
  /\ pc' = "connect"
  /\ UNCHANGED <<plcVars, link, client, connected, previous, read, sample, pending,
                 counted, stop, sharedVars, lock, readerVars>>

\* Mutant: the flag is set as soon as the connection is open.
ConnectFlags ==
  /\ pc = "connect" /\ link
  /\ client' = "open" /\ heard' = FALSE /\ connected' = TRUE
  /\ pc' = "readInputs"
  /\ UNCHANGED <<plcVars, link, previous, read, sample, pending, counted,
                 stop, raw, stamp, lock, readerVars>>

\* Snap7Reader.connect: a new client, connected or an exception.
Connect ==
  /\ pc = "connect" /\ link
  /\ client' = "open" /\ heard' = FALSE
  /\ pc' = "readInputs"
  /\ UNCHANGED <<plcVars, link, connected, previous, read, sample, pending, counted,
                 stop, raw, stamp, lock, readerVars>>

\* Mutant: connecting is retried on the spot, without a look at stop.
ConnectRetries ==
  /\ pc = "connect" /\ ~link
  /\ client' = "broken"
  /\ UNCHANGED <<plcVars, link, pc, connected, previous, read, sample, pending,
                 counted, stop, sharedVars, lock, readerVars>>

ConnectFails ==
  /\ pc = "connect" /\ ~link
  /\ client' = "broken"
  /\ pc' = "handler"
  /\ UNCHANGED <<plcVars, link, connected, previous, read, sample, pending, counted,
                 stop, sharedVars, lock, readerVars>>

\* Snap7Reader.read: the two areas are two requests to the PLC.
ReadArea(here, area, next) ==
  /\ pc = here /\ client = "open"
  /\ read' = read \cup area
  /\ sample' = sample \cup (plc \cap area)
  /\ pc' = next
  /\ UNCHANGED <<plcVars, link, client, connected, previous, pending, counted,
                 stop, sharedVars, lock, readerVars>>

ReadInputs == ReadArea("readInputs", Inputs, "readOutputs")
ReadOutputs == ReadArea("readOutputs", Outputs, "detect")

ReadFails ==
  /\ pc \in {"readInputs", "readOutputs"} /\ client /= "open"
  /\ read' = {} /\ sample' = {}
  /\ pc' = "handler"
  /\ UNCHANGED <<plcVars, link, client, connected, previous, pending, counted,
                 stop, sharedVars, lock, readerVars>>

\* detect_events: rising edges, none when there is no previous image.
\* Mutants: a missing previous image counts as all FALSE, or gives an
\* event that is None.
EventsFromNothing(before, now) == IF before = None THEN now ELSE now \ before
EventsNone(before, now) == IF before = None THEN {None} ELSE now \ before

Events(before, now) == IF before = None THEN {} ELSE now \ before

\* _process, lines 121-122.
Detect ==
  /\ pc = "detect"
  /\ pending' = Events(previous, sample)
  /\ previous' = sample
  /\ read' = {}
  /\ pc' = "emit"
  /\ UNCHANGED <<plcVars, link, client, connected, sample, counted,
                 stop, sharedVars, lock, readerVars>>

\* _process, lines 123-129: one on_event call, whose exceptions are logged.
\* The order of the tags of one image plays no part.
Emit(t) ==
  /\ pc = "emit" /\ t \in pending
  /\ pending' = pending \ {t}
  /\ counted' = [counted EXCEPT ![t] = @ + 1]
  /\ UNCHANGED <<plcVars, link, client, pc, connected, previous, read, sample,
                 stop, sharedVars, lock, readerVars>>

\* Mutant: the image is published without the lock.
TakeNoLock ==
  /\ pc = "emit" /\ pending = {}
  /\ pc' = "publishRaw"
  /\ UNCHANGED <<plcVars, link, client, connected, previous, read, sample, pending,
                 counted, stop, sharedVars, lock, readerVars>>

\* _process, lines 130-132: with self._lock, in two assignments.
TakeLock ==
  /\ pc = "emit" /\ pending = {} /\ lock = None
  /\ lock' = "thread"
  /\ pc' = "publishRaw"
  /\ UNCHANGED <<plcVars, link, client, connected, previous, read, sample, pending,
                 counted, stop, sharedVars, readerVars>>

PublishRaw ==
  /\ pc = "publishRaw"
  /\ raw' = sample
  /\ pc' = "publishStamp"
  /\ UNCHANGED <<plcVars, link, client, connected, previous, read, sample, pending,
                 counted, stop, stamp, heard, lock, readerVars>>

PublishStamp ==
  /\ pc = "publishStamp"
  /\ stamp' = sample /\ heard' = TRUE /\ sample' = {}
  /\ lock' = IF lock = "thread" THEN None ELSE lock
  /\ pc' = "flag"
  /\ UNCHANGED <<plcVars, link, client, connected, previous, read, pending,
                 counted, stop, raw, readerVars>>

\* Line 112, outside the lock.
Flag ==
  /\ pc = "flag"
  /\ connected' = TRUE
  /\ pc' = "head"
  /\ UNCHANGED <<plcVars, link, client, previous, read, sample, pending, counted,
                 stop, sharedVars, lock, readerVars>>

\* Mutant: a failure leaves the flag up.
UnflagSkipped ==
  /\ pc = "handler"
  /\ pc' = "close"
  /\ UNCHANGED <<plcVars, link, client, connected, previous, read, sample, pending,
                 counted, stop, sharedVars, lock, readerVars>>

\* Lines 113-117: the flag, outside the lock, then close.
Unflag ==
  /\ pc = "handler"
  /\ connected' = FALSE
  /\ pc' = "close"
  /\ UNCHANGED <<plcVars, link, client, previous, read, sample, pending, counted,
                 stop, sharedVars, lock, readerVars>>

Close ==
  /\ pc = "close"
  /\ client' = "none"
  /\ pc' = "head"
  /\ UNCHANGED <<plcVars, link, connected, previous, read, sample, pending, counted,
                 stop, sharedVars, lock, readerVars>>

\* stop: the thread is asked to end.
Stop ==
  /\ ~stop
  /\ stop' = TRUE
  /\ UNCHANGED <<plcVars, link, threadVars, sharedVars, lock, readerVars>>
-----------------------------------------------------------------------------
(* snapshot, on a request thread; its lines in the order they are read. *)

Answers(r, from, to, fields) ==
  /\ at[r] = from
  /\ at' = [at EXCEPT ![r] = to]
  /\ reply' = [reply EXCEPT ![r] = fields]
  /\ UNCHANGED <<plcVars, link, threadVars, stop, sharedVars>>

BeginSnapshot(r) ==
  /\ lock = None /\ lock' = r
  /\ Answers(r, "idle", "connected", NoReply)

ReadConnected(r) ==
  /\ Answers(r, "connected", "stale", [reply[r] EXCEPT !.connected = connected])
  /\ UNCHANGED lock

ReadStale(r) ==
  /\ Answers(r, "stale", "update", [reply[r] EXCEPT !.stale = ~connected])
  /\ UNCHANGED lock

ReadUpdate(r) ==
  /\ Answers(r, "update", "values",
             [reply[r] EXCEPT !.connecting = (raw = None), !.last_update = stamp])
  /\ UNCHANGED lock

ReadValues(r) ==
  /\ Answers(r, "values", "answered", [reply[r] EXCEPT !.values = raw])
  /\ lock' = None

Return(r) ==
  /\ Answers(r, "answered", "idle", NoReply)
  /\ UNCHANGED lock

Poll ==
  \/ Exit \/ KeepConnection \/ NeedsConnection \/ Connect \/ ConnectFails
  \/ ReadInputs \/ ReadOutputs \/ ReadFails \/ Detect \/ (\E t \in Tags : Emit(t))
  \/ TakeLock \/ PublishRaw \/ PublishStamp \/ Flag \/ Unflag \/ Close

Snapshot(r) ==
  \/ BeginSnapshot(r) \/ ReadConnected(r) \/ ReadStale(r)
  \/ ReadUpdate(r) \/ ReadValues(r) \/ Return(r)

World == LinkDrops \/ LinkReturns \/ \E t \in Tags : TagRises(t) \/ TagFalls(t)

Next == Poll \/ Stop \/ (\E r \in Readers : Snapshot(r)) \/ World

\* The thread runs, its calls to the PLC time out, and a lock that is free
\* again and again is taken sometime (SF); a request that began is finished.
Fairness ==
  /\ WF_vars(Poll) /\ SF_vars(TakeLock)
  /\ \A r \in Readers :
       WF_vars(ReadConnected(r) \/ ReadStale(r) \/ ReadUpdate(r) \/ ReadValues(r))

Spec == Init /\ [][Next]_vars /\ Fairness
-----------------------------------------------------------------------------
Image == {None} \cup SUBSET Tags

\* Type invariant of the poller, its readers and the PLC.
TypeOK ==
  /\ plc \in SUBSET Tags /\ link \in BOOLEAN
  /\ client \in {"none", "open", "broken"}
  /\ pc \in {"head", "connect", "readInputs", "readOutputs", "detect", "emit",
             "publishRaw", "publishStamp", "flag", "handler", "close", "exited"}
  /\ stop \in BOOLEAN /\ connected \in BOOLEAN /\ heard \in BOOLEAN
  /\ raw \in Image /\ stamp \in Image /\ previous \in Image
  /\ read \in SUBSET Tags /\ sample \in SUBSET Tags /\ pending \in SUBSET Tags
  /\ lock \in {None, "thread"} \cup Readers
  /\ at \in [Readers -> {"idle", "connected", "stale", "update", "values",
                       "answered"}]
  /\ reply \in [Readers -> [connected : BOOLEAN, stale : BOOLEAN,
                            connecting : BOOLEAN, last_update : Image,
                            values : Image]]
  /\ counted \in [Tags -> Nat] /\ rises \in [Tags -> Nat]

\* Every event stands for a rising edge of its own in the PLC.
NoPhantom == \A t \in Tags : counted[t] <= rises[t]

\* The poller is a line source: an edge is never counted twice and none is
\* invented, whatever fails between two images and though the two areas are
\* read at different times; an iteration begun before stop may still report,
\* none begins after it (plc.py:76-79, 105-111, 120-129; edges.py:10-16).
Source == INSTANCE LineSource
  WITH asked <- stop,
       thread <- IF pc = "head" THEN "idle"
                 ELSE IF pc = "exited" THEN "over" ELSE "busy"

ImplementsLineSource == Source!LineSpec

\* The dashboard calls a connection live only once an image of THIS
\* connection has been published: values kept from before an outage are
\* never shown as live (plc.py:108-117).
LiveValuesAreOfThisSession == connected => heard /\ raw /= None

\* What a request thread returns hangs together although the thread writes
\* the flag without the lock: the time belongs to the values, "connecting"
\* means no values, and values that are not stale exist (plc.py:81-93).
SnapshotCoherent ==
  \A r \in Readers : at[r] = "answered" =>
    /\ reply[r].last_update = reply[r].values
    /\ reply[r].connecting <=> reply[r].values = None
    /\ ~reply[r].stale => ~reply[r].connecting

\* A poller that is not stopped finds the PLC again once the link stays up,
\* from whatever point of an iteration it lost it (plc.py:105-118).
Reconnects == <>[](link /\ ~stop) => <>[](connected /\ client = "open")

\* A poller that is told to stop ends, whatever the link does (plc.py:76-79).
Stops == stop ~> pc = "exited"

\* "on reconnect the first snapshot only re-baselines edge detection"
\* (plc.py:52-53): events come only from an image that follows another image
\* of the same connection.
BaselineOnReconnect == pending /= {} => heard
=============================================================================
