--------------------------- MODULE PlcPollerProofs --------------------------
(***************************************************************************)
(* Proofs about PlcPoller, for every pair of areas, any number of request  *)
(* threads and of edges, and a link that may drop between any two steps.   *)
(***************************************************************************)
EXTENDS PlcPoller, TLAPS

\* A poll opens a connection only after the flag was lowered, and raises it
\* only after it published an image of that connection.
Flagged ==
  /\ connected => heard /\ raw /= None
  /\ pc = "connect" => ~connected
  /\ pc = "publishStamp" => raw /= None
  /\ pc = "flag" => heard /\ raw /= None

\* Image and time differ only while the thread holds the lock.
Locked ==
  /\ pc \in {"publishRaw", "publishStamp"} => lock = "thread"
  /\ pc = "publishStamp" => raw = sample
  /\ pc /= "publishStamp" => stamp = raw
  /\ \A r \in Readers :
       at[r] \in {"connected", "stale", "update", "values"} => lock = r

\* What a reader has read so far hangs together with what it has yet to read.
Replying ==
  \A r \in Readers :
    /\ at[r] \in {"update", "values"} => reply[r].stale \/ raw /= None
    /\ at[r] = "values" => /\ reply[r].last_update = stamp
                           /\ reply[r].connecting <=> raw = None
    /\ at[r] = "answered" => /\ reply[r].last_update = reply[r].values
                             /\ reply[r].connecting <=> reply[r].values = None
                             /\ reply[r].stale \/ ~reply[r].connecting

\* How much of a poll's image has been read, and when events are pending.
Sampled ==
  /\ pc \notin {"readOutputs", "detect"} => read = {}
  /\ pc \notin {"readOutputs", "detect", "emit", "publishRaw", "publishStamp"}
       => sample = {}
  /\ pc = "readOutputs" => read = Inputs /\ sample \subseteq Inputs
  /\ pc = "detect" => read = Tags
  /\ pc /= "emit" => pending = {}

\* The rises of t that are still to be found along previous image, sample
\* and PLC.
Ahead(t) ==
  IF t \in read
  THEN (IF previous = None \/ t \in previous \/ t \notin sample THEN 0 ELSE 1)
       + (IF t \in sample \/ t \notin plc THEN 0 ELSE 1)
  ELSE IF previous = None \/ t \in previous \/ t \notin plc THEN 0 ELSE 1

\* Each rise in the PLC pays for one event: counted, pending, or still ahead.
Owed(t) == IF t \in pending THEN 1 ELSE 0
Paid == \A t \in Tags : counted[t] + Owed(t) + Ahead(t) <= rises[t]
-----------------------------------------------------------------------------
Places == {"idle", "connected", "stale", "update", "values", "answered"}
Replies == [connected : BOOLEAN, stale : BOOLEAN, connecting : BOOLEAN,
            last_update : Image, values : Image]

\* A request thread goes on with a reply that is well typed.
LEMMA AnswersTyped ==
  ASSUME TypeOK, NEW r \in Readers, NEW from, NEW to \in Places, NEW fields \in Replies,
         Answers(r, from, to, fields), lock' \in {None, "thread"} \cup Readers
  PROVE  TypeOK'
<1>1. at' \in [Readers -> Places]
  BY DEF TypeOK, Answers, Places
<1>2. reply' \in [Readers -> Replies]
  BY DEF TypeOK, Answers, Replies
<1>3. UNCHANGED <<plc, rises, link, client, pc, connected, previous, read, sample,
                  pending, counted, stop, raw, stamp, heard>>
  BY DEF Answers, plcVars, threadVars, sharedVars
<1> HIDE DEF Answers
<1> QED BY <1>1, <1>2, <1>3, Zenon DEF TypeOK, Places, Replies

\* Every reachable state of the poller, its readers and the PLC is well typed
\* (plc.py:48-132).
THEOREM TypeCorrect == Spec => []TypeOK
<1>1. Init => TypeOK
  <2> SUFFICES ASSUME Init PROVE TypeOK
    OBVIOUS
  <2>1. counted \in [Tags -> Nat] /\ rises \in [Tags -> Nat]
    BY DEF Init
  <2>2. at \in [Readers -> {"idle", "connected", "stale", "update", "values", "answered"}]
    BY DEF Init
  <2>3. reply \in [Readers -> [connected : BOOLEAN, stale : BOOLEAN, connecting : BOOLEAN,
                              last_update : Image, values : Image]]
    BY DEF Init, NoReply, Image
  <2>4. read \in SUBSET Tags /\ sample \in SUBSET Tags /\ pending \in SUBSET Tags
    BY DEF Init
  <2> QED BY <2>1, <2>2, <2>3, <2>4, Zenon DEF Init, TypeOK, Image
<1>2. TypeOK /\ [Next]_vars => TypeOK'
  <2> SUFFICES ASSUME TypeOK, [Next]_vars PROVE TypeOK'
    OBVIOUS
  <2> USE DEF TypeOK, Image
  <2>1. CASE Exit \/ KeepConnection \/ NeedsConnection \/ Connect \/ ConnectFails \/ ReadFails
    <3>1. CASE Exit \/ KeepConnection \/ NeedsConnection
      BY <3>1 DEF Exit, KeepConnection, NeedsConnection, plcVars, sharedVars, readerVars
    <3>2. CASE Connect \/ ConnectFails
      BY <3>2 DEF Connect, ConnectFails, plcVars, sharedVars, readerVars
    <3>3. CASE ReadFails
      BY <3>3 DEF ReadFails, plcVars, sharedVars, readerVars
    <3> QED BY <2>1, <3>1, <3>2, <3>3
  <2>2. CASE ReadInputs \/ ReadOutputs
    <3>1. read' \in SUBSET Tags /\ sample' \in SUBSET Tags
      BY <2>2 DEF ReadInputs, ReadOutputs, ReadArea, Tags
    <3> QED BY <2>2, <3>1
            DEF ReadInputs, ReadOutputs, ReadArea, plcVars, sharedVars, readerVars
  <2>3. CASE Detect
    <3>1. pending' \in SUBSET Tags
      BY <2>3, NoneAssumption DEF Detect, Events
    <3> QED BY <2>3, <3>1 DEF Detect, plcVars, sharedVars, readerVars
  <2>4. ASSUME NEW t \in Tags, Emit(t) PROVE TypeOK'
    BY <2>4 DEF Emit, plcVars, sharedVars, readerVars
  <2>5. CASE TakeLock \/ PublishRaw \/ PublishStamp \/ Flag \/ Unflag \/ Close
    <3>1. CASE TakeLock
      BY <3>1 DEF TakeLock, plcVars, sharedVars, readerVars
    <3>2. CASE PublishRaw
      BY <3>2 DEF PublishRaw, plcVars, sharedVars, readerVars
    <3>3. CASE PublishStamp
      BY <3>3 DEF PublishStamp, plcVars, sharedVars, readerVars
    <3>4. CASE Flag \/ Unflag \/ Close
      BY <3>4 DEF Flag, Unflag, Close, plcVars, sharedVars, readerVars
    <3> QED BY <2>5, <3>1, <3>2, <3>3, <3>4
  <2>6. CASE Stop
    BY <2>6 DEF Stop, plcVars, threadVars, sharedVars, readerVars
  <2>7. ASSUME NEW r \in Readers, BeginSnapshot(r) \/ Return(r) PROVE TypeOK'
    <3>1. NoReply \in Replies
      BY DEF NoReply, Replies
    <3> QED BY <2>7, <3>1, AnswersTyped DEF BeginSnapshot, Return, Places
  <2>8. ASSUME NEW r \in Readers, ReadConnected(r) PROVE TypeOK'
    <3>1. [reply[r] EXCEPT !.connected = connected] \in Replies
      BY DEF Replies
    <3> QED BY <2>8, <3>1, AnswersTyped DEF ReadConnected, Places
  <2>9. ASSUME NEW r \in Readers, ReadStale(r) PROVE TypeOK'
    <3>1. [reply[r] EXCEPT !.stale = ~connected] \in Replies
      BY DEF Replies
    <3> QED BY <2>9, <3>1, AnswersTyped DEF ReadStale, Places
  <2>10. ASSUME NEW r \in Readers, ReadUpdate(r) PROVE TypeOK'
    <3> DEFINE waiting == raw = None
    <3>1. waiting \in BOOLEAN
      BY Zenon
    <3>2. Answers(r, "update", "values",
                  [reply[r] EXCEPT !.connecting = waiting, !.last_update = stamp])
      BY <2>10 DEF ReadUpdate
    <3> HIDE DEF waiting
    <3>3. [reply[r] EXCEPT !.connecting = waiting, !.last_update = stamp] \in Replies
      BY <3>1 DEF Replies
    <3> QED BY <2>10, <3>2, <3>3, AnswersTyped DEF ReadUpdate, Places
  <2>11. ASSUME NEW r \in Readers, ReadValues(r) PROVE TypeOK'
    <3> DEFINE whole == [reply[r] EXCEPT !.values = raw]
    <3>1. whole \in Replies
      BY DEF Replies
    <3>2. Answers(r, "values", "answered", whole) /\ lock' = None
      BY <2>11 DEF ReadValues
    <3> HIDE DEF whole
    <3> QED BY <3>1, <3>2, AnswersTyped DEF Places
  <2>12. CASE UNCHANGED vars
    BY <2>12 DEF vars, plcVars, threadVars, sharedVars, readerVars
  <2>13. CASE LinkDrops \/ LinkReturns
    <3>1. /\ link' \in BOOLEAN /\ client' \in {"none", "open", "broken"}
          /\ UNCHANGED <<plcVars, pc, connected, previous, read, sample, pending,
                         counted, stop, sharedVars, lock, readerVars>>
      BY <2>13 DEF LinkDrops, LinkReturns, threadVars
    <3> QED BY <3>1 DEF plcVars, sharedVars, readerVars
  <2>14. ASSUME NEW t \in Tags, TagRises(t) \/ TagFalls(t) PROVE TypeOK'
    BY <2>14 DEF TagRises, TagFalls, threadVars, sharedVars, readerVars
  <2> QED BY <2>1, <2>2, <2>3, <2>4, <2>5, <2>6, <2>7, <2>8, <2>9, <2>10, <2>11, <2>12,
             <2>13, <2>14 DEF Next, Poll, Snapshot, World
<1> QED BY <1>1, <1>2, PTL DEF Spec

\* An image is never None: what a poll sampled can be published.
LEMMA SampleIsAnImage == ASSUME TypeOK PROVE sample /= None
  BY NoneAssumption DEF TypeOK

LEMMA FlaggedStep == ASSUME TypeOK, Flagged, [Next]_vars PROVE Flagged'
<1> USE DEF Flagged
<1>1. CASE Exit \/ KeepConnection \/ NeedsConnection
  BY <1>1 DEF Exit, KeepConnection, NeedsConnection, sharedVars
<1>2. CASE Connect \/ ConnectFails \/ ReadFails
  BY <1>2 DEF Connect, ConnectFails, ReadFails, sharedVars
<1>3. CASE ReadInputs \/ ReadOutputs
  BY <1>3 DEF ReadInputs, ReadOutputs, ReadArea, sharedVars
<1>4. CASE Detect \/ (\E t \in Tags : Emit(t)) \/ TakeLock
  BY <1>4 DEF Detect, Emit, TakeLock, sharedVars
<1>5. CASE PublishRaw \/ PublishStamp
  BY <1>5, SampleIsAnImage DEF PublishRaw, PublishStamp
<1>6. CASE Flag \/ Unflag \/ Close
  BY <1>6 DEF Flag, Unflag, Close, sharedVars
<1>7. CASE Stop \/ World \/ UNCHANGED vars
  BY <1>7 DEF Stop, World, LinkDrops, LinkReturns, TagRises, TagFalls,
              vars, threadVars, sharedVars
<1>8. CASE \E r \in Readers : Snapshot(r)
  BY <1>8 DEF Snapshot, BeginSnapshot, ReadConnected, ReadStale, ReadUpdate, ReadValues,
              Return, Answers, threadVars, sharedVars
<1> QED BY <1>1, <1>2, <1>3, <1>4, <1>5, <1>6, <1>7, <1>8 DEF Next, Poll

\* Values kept from before an outage are never shown as live, wherever the
\* link drops and comes back (plc.py:108-117).
THEOREM LiveIsOfThisSession == Spec => []LiveValuesAreOfThisSession
<1>1. Init => Flagged
  BY DEF Init, Flagged
<1>2. TypeOK /\ Flagged /\ [Next]_vars => Flagged'
  BY FlaggedStep
<1>3. Flagged => LiveValuesAreOfThisSession
  BY DEF Flagged, LiveValuesAreOfThisSession
<1> QED BY <1>1, <1>2, <1>3, TypeCorrect, PTL DEF Spec
-----------------------------------------------------------------------------
LEMMA LockedStep == ASSUME TypeOK, Locked, [Next]_vars PROVE Locked'
<1> USE DEF Locked
<1>1. CASE Exit \/ KeepConnection \/ NeedsConnection
  BY <1>1 DEF Exit, KeepConnection, NeedsConnection, sharedVars, readerVars
<1>2. CASE Connect \/ ConnectFails \/ ReadFails
  BY <1>2 DEF Connect, ConnectFails, ReadFails, sharedVars, readerVars
<1>3. CASE ReadInputs \/ ReadOutputs
  BY <1>3 DEF ReadInputs, ReadOutputs, ReadArea, sharedVars, readerVars
<1>4. CASE Detect \/ (\E t \in Tags : Emit(t)) \/ TakeLock
  BY <1>4, NoneAssumption DEF Detect, Emit, TakeLock, sharedVars, readerVars
<1>5. CASE PublishRaw \/ PublishStamp
  BY <1>5, NoneAssumption, HolderAssumption DEF PublishRaw, PublishStamp, readerVars
<1>6. CASE Flag \/ Unflag \/ Close
  BY <1>6 DEF Flag, Unflag, Close, sharedVars, readerVars
<1>7. CASE Stop \/ World \/ UNCHANGED vars
  BY <1>7 DEF Stop, World, LinkDrops, LinkReturns, TagRises, TagFalls,
              vars, threadVars, sharedVars, readerVars
<1>8. ASSUME NEW r \in Readers, Snapshot(r) PROVE Locked'
  <2>1. at \in [Readers -> Places]
    BY DEF TypeOK, Places
  <2>2. UNCHANGED <<pc, sample, raw, stamp>>
    BY <1>8 DEF Snapshot, BeginSnapshot, ReadConnected, ReadStale, ReadUpdate, ReadValues,
                Return, Answers, threadVars, sharedVars
  <2>3. CASE BeginSnapshot(r)
    BY <2>1, <2>2, <2>3, NoneAssumption DEF BeginSnapshot, Answers
  <2>4. CASE ReadConnected(r) \/ ReadStale(r) \/ ReadUpdate(r)
    BY <2>1, <2>2, <2>4 DEF ReadConnected, ReadStale, ReadUpdate, Answers
  <2>5. CASE ReadValues(r)
    BY <2>1, <2>2, <2>5, NoneAssumption, HolderAssumption DEF ReadValues, Answers
  <2>6. CASE Return(r)
    BY <2>1, <2>2, <2>6 DEF Return, Answers
  <2> QED BY <1>8, <2>3, <2>4, <2>5, <2>6 DEF Snapshot
<1> QED BY <1>1, <1>2, <1>3, <1>4, <1>5, <1>6, <1>7, <1>8 DEF Next, Poll

\* A step that is no reader's leaves image and time alone, unless the thread
\* publishes, and then no reader is inside the lock.
LEMMA OthersPublishAlone ==
  ASSUME TypeOK, Locked, Poll \/ Stop \/ World \/ UNCHANGED vars
  PROVE  /\ UNCHANGED <<at, reply>>
         /\ \/ UNCHANGED <<raw, stamp>>
            \/ lock = "thread" /\ \A r \in Readers : at[r] \notin {"update", "values"}
<1>1. CASE Exit \/ KeepConnection \/ NeedsConnection
  BY <1>1 DEF Exit, KeepConnection, NeedsConnection, sharedVars, readerVars
<1>2. CASE Connect \/ ConnectFails \/ ReadFails
  BY <1>2 DEF Connect, ConnectFails, ReadFails, sharedVars, readerVars
<1>3. CASE ReadInputs \/ ReadOutputs
  BY <1>3 DEF ReadInputs, ReadOutputs, ReadArea, sharedVars, readerVars
<1>4. CASE Detect \/ (\E t \in Tags : Emit(t)) \/ TakeLock
  BY <1>4 DEF Detect, Emit, TakeLock, sharedVars, readerVars
<1>5. CASE PublishRaw \/ PublishStamp
  BY <1>5, HolderAssumption DEF PublishRaw, PublishStamp, readerVars, Locked
<1>6. CASE Flag \/ Unflag \/ Close
  BY <1>6 DEF Flag, Unflag, Close, sharedVars, readerVars
<1>7. CASE Stop \/ World \/ UNCHANGED vars
  BY <1>7 DEF Stop, World, LinkDrops, LinkReturns, TagRises, TagFalls,
              vars, sharedVars, readerVars
<1> QED BY <1>1, <1>2, <1>3, <1>4, <1>5, <1>6, <1>7 DEF Poll

LEMMA ReplyingStep ==
  ASSUME TypeOK, Flagged, Locked, Replying, [Next]_vars PROVE Replying'
<1>1. CASE Poll \/ Stop \/ World \/ UNCHANGED vars
  BY <1>1, OthersPublishAlone DEF Replying
<1>2. ASSUME NEW r \in Readers, Snapshot(r) PROVE Replying'
  <2>1. at \in [Readers -> Places] /\ reply \in [Readers -> Replies]
    BY DEF TypeOK, Places, Replies
  <2>2. UNCHANGED <<raw, stamp>>
    BY <1>2 DEF Snapshot, BeginSnapshot, ReadConnected, ReadStale, ReadUpdate, ReadValues,
                Return, Answers, sharedVars
  <2>3. CASE BeginSnapshot(r) \/ ReadConnected(r) \/ Return(r)
    BY <2>1, <2>2, <2>3 DEF BeginSnapshot, ReadConnected, Return, Answers, Replying
  <2>4. CASE ReadStale(r)
    BY <2>1, <2>2, <2>4 DEF ReadStale, Answers, Replying, Replies, TypeOK, Flagged
  <2>5. CASE ReadUpdate(r)
    <3> DEFINE waiting == raw = None
               fields == [reply[r] EXCEPT !.connecting = waiting, !.last_update = stamp]
    <3>1. waiting \in BOOLEAN /\ (waiting <=> raw = None)
      BY Zenon
    <3>2. at[r] = "update" /\ at' = [at EXCEPT ![r] = "values"]
          /\ reply' = [reply EXCEPT ![r] = fields]
      BY <2>5 DEF ReadUpdate, Answers
    <3> HIDE DEF waiting
    <3>3. fields.last_update = stamp /\ fields.connecting = waiting
          /\ fields.stale = reply[r].stale
      BY <2>1 DEF Replies
    <3> HIDE DEF fields
    <3> QED BY <2>1, <2>2, <3>1, <3>2, <3>3 DEF Replying
  <2>6. CASE ReadValues(r)
    <3>1. stamp = raw
      BY <2>6, HolderAssumption DEF ReadValues, Answers, Locked
    <3> QED BY <2>1, <2>2, <2>6, <3>1 DEF ReadValues, Answers, Replying, Replies
  <2> QED BY <1>2, <2>3, <2>4, <2>5, <2>6 DEF Snapshot
<1> QED BY <1>1, <1>2 DEF Next

\* Every answer of snapshot hangs together, for any number of request
\* threads at any point of a poll (plc.py:81-93).
THEOREM AnswersCohere == Spec => []SnapshotCoherent
<1>1. Init => Flagged /\ Locked /\ Replying
  BY DEF Init, Flagged, Locked, Replying
<1>2. TypeOK /\ Flagged /\ Locked /\ Replying /\ [Next]_vars
        => Flagged' /\ Locked' /\ Replying'
  BY FlaggedStep, LockedStep, ReplyingStep
<1>3. Replying => SnapshotCoherent
  BY DEF Replying, SnapshotCoherent
<1> QED BY <1>1, <1>2, <1>3, TypeCorrect, PTL DEF Spec
-----------------------------------------------------------------------------
LEMMA SampledStep == ASSUME TypeOK, Sampled, [Next]_vars PROVE Sampled'
<1> USE DEF Sampled
<1>1. CASE Exit \/ KeepConnection \/ NeedsConnection
  BY <1>1 DEF Exit, KeepConnection, NeedsConnection
<1>2. CASE Connect \/ ConnectFails \/ ReadFails
  BY <1>2 DEF Connect, ConnectFails, ReadFails
<1>3. CASE ReadInputs \/ ReadOutputs
  BY <1>3 DEF ReadInputs, ReadOutputs, ReadArea, Tags
<1>4. CASE Detect \/ (\E t \in Tags : Emit(t)) \/ TakeLock
  BY <1>4 DEF Detect, Emit, TakeLock
<1>5. CASE PublishRaw \/ PublishStamp \/ Flag \/ Unflag \/ Close
  BY <1>5 DEF PublishRaw, PublishStamp, Flag, Unflag, Close
<1>6. CASE Stop \/ World \/ UNCHANGED vars
  BY <1>6 DEF Stop, World, LinkDrops, LinkReturns, TagRises, TagFalls, vars, threadVars
<1>7. CASE \E r \in Readers : Snapshot(r)
  BY <1>7 DEF Snapshot, BeginSnapshot, ReadConnected, ReadStale, ReadUpdate, ReadValues,
              Return, Answers, threadVars
<1> QED BY <1>1, <1>2, <1>3, <1>4, <1>5, <1>6, <1>7 DEF Next, Poll

\* The account of one tag does not change when nothing it is made of does.
LEMMA Unpaid ==
  ASSUME Paid, UNCHANGED <<plc, rises, counted, pending, previous, read>>,
         read = {} \/ UNCHANGED sample
  PROVE  Paid'
  BY DEF Paid, Ahead, Owed

LEMMA PaidStep == ASSUME TypeOK, Sampled, Paid, [Next]_vars PROVE Paid'
<1> DEFINE Account(t) == counted[t] + Owed(t) + Ahead(t) <= rises[t]
<1>0. \A t \in Tags : /\ counted[t] \in Nat /\ rises[t] \in Nat
                      /\ Owed(t) \in 0 .. 1 /\ Ahead(t) \in 0 .. 2
  BY DEF TypeOK, Owed, Ahead
<1>1. CASE Exit \/ KeepConnection \/ NeedsConnection \/ Connect \/ ConnectFails
  BY <1>1, Unpaid DEF Exit, KeepConnection, NeedsConnection, Connect, ConnectFails, plcVars
<1>2. CASE ReadInputs \/ ReadOutputs
  <2> SUFFICES ASSUME NEW t \in Tags PROVE Account(t)'
    BY DEF Paid
  <2>1. UNCHANGED <<plc, rises, counted, pending, previous>>
    BY <1>2 DEF ReadInputs, ReadOutputs, ReadArea, plcVars
  <2>2. t \in read => t \in read' /\ (t \in sample' <=> t \in sample)
    BY <1>2, AreasAssumption DEF ReadInputs, ReadOutputs, ReadArea, Sampled
  <2>3. t \in read' /\ t \notin read => (t \in sample' <=> t \in plc)
    BY <1>2, AreasAssumption DEF ReadInputs, ReadOutputs, ReadArea, Sampled
  <2>4. Ahead(t)' = Ahead(t)
    BY <2>1, <2>2, <2>3 DEF Ahead
  <2> QED BY <2>1, <2>4 DEF Paid, Owed
<1>3. CASE ReadFails
  <2> SUFFICES ASSUME NEW t \in Tags PROVE Account(t)'
    BY DEF Paid
  <2>1. UNCHANGED <<plc, rises, counted, pending, previous>> /\ read' = {}
    BY <1>3 DEF ReadFails, plcVars
  <2>2. Ahead(t)' <= Ahead(t) /\ Ahead(t)' \in 0 .. 2
    BY <2>1 DEF Ahead
  <2> QED BY <1>0, <2>1, <2>2 DEF Paid, Owed
<1>4. CASE Detect
  <2> SUFFICES ASSUME NEW t \in Tags PROVE Account(t)'
    BY DEF Paid
  <2>1. /\ UNCHANGED <<plc, rises, counted>>
        /\ pending = {} /\ pending' = Events(previous, sample)
        /\ read = Tags /\ read' = {} /\ previous' = sample /\ sample /= None
    BY <1>4, SampleIsAnImage DEF Detect, Sampled, plcVars
  <2>2. Owed(t)' + Ahead(t)' = Ahead(t) /\ Owed(t) = 0
    BY <2>1 DEF Ahead, Owed, Events
  <2>3. Owed(t)' \in 0 .. 1 /\ Ahead(t)' \in 0 .. 2
    BY DEF Ahead, Owed
  <2> QED BY <1>0, <2>1, <2>2, <2>3 DEF Paid
<1>5. ASSUME NEW u \in Tags, Emit(u) PROVE Paid'
  <2> SUFFICES ASSUME NEW t \in Tags PROVE Account(t)'
    BY DEF Paid
  <2>1. /\ UNCHANGED <<plc, rises, previous, read, sample>>
        /\ u \in pending /\ pending' = pending \ {u}
        /\ counted' = [counted EXCEPT ![u] = @ + 1]
    BY <1>5 DEF Emit, plcVars
  <2>2. Ahead(t)' = Ahead(t)
    BY <2>1 DEF Ahead
  <2>3. counted'[t] + Owed(t)' = counted[t] + Owed(t)
    BY <2>1, <1>0 DEF Owed, TypeOK
  <2> QED BY <1>0, <2>1, <2>2, <2>3 DEF Paid, Owed
<1>6. CASE TakeLock \/ PublishRaw \/ PublishStamp \/ Flag \/ Unflag \/ Close
  BY <1>6, Unpaid DEF TakeLock, PublishRaw, PublishStamp, Flag, Unflag, Close, Sampled,
                      plcVars
<1>7. ASSUME NEW u \in Tags, TagRises(u) \/ TagFalls(u) PROVE Paid'
  <2> SUFFICES ASSUME NEW t \in Tags PROVE Account(t)'
    BY DEF Paid
  <2>1. UNCHANGED <<counted, pending, previous, read, sample>>
    BY <1>7 DEF TagRises, TagFalls, threadVars
  <2>2. Ahead(t)' \in 0 .. 2 /\ Owed(t)' = Owed(t)
    BY <2>1 DEF Ahead, Owed
  <2>3. CASE TagFalls(u)
    <3>1. Ahead(t)' <= Ahead(t) /\ rises' = rises
      BY <2>1, <2>3 DEF TagFalls, Ahead
    <3> QED BY <1>0, <2>1, <2>2, <3>1 DEF Paid
  <2>4. CASE TagRises(u)
    <3>1. CASE t = u
      <4>1. Ahead(t)' <= Ahead(t) + 1 /\ rises'[t] = rises[t] + 1
        BY <2>1, <2>4, <3>1 DEF TagRises, Ahead, TypeOK
      <4> QED BY <1>0, <2>1, <2>2, <4>1 DEF Paid
    <3>2. CASE t /= u
      <4>1. Ahead(t)' = Ahead(t) /\ rises'[t] = rises[t]
        BY <2>1, <2>4, <3>2 DEF TagRises, Ahead, TypeOK
      <4> QED BY <1>0, <2>1, <2>2, <4>1 DEF Paid
    <3> QED BY <3>1, <3>2
  <2> QED BY <1>7, <2>3, <2>4
<1>8. CASE Stop \/ LinkDrops \/ LinkReturns \/ UNCHANGED vars
  BY <1>8, Unpaid DEF Stop, LinkDrops, LinkReturns, vars, threadVars, plcVars
<1>9. CASE \E r \in Readers : Snapshot(r)
  BY <1>9, Unpaid DEF Snapshot, BeginSnapshot, ReadConnected, ReadStale, ReadUpdate,
                      ReadValues, Return, Answers, threadVars, plcVars
<1> QED BY <1>1, <1>2, <1>3, <1>4, <1>5, <1>6, <1>7, <1>8, <1>9 DEF Next, Poll, World

LEMMA Accounts == Spec => [](Sampled /\ Paid)
<1>1. Init => Sampled /\ Paid
  BY NoneAssumption DEF Init, Sampled, Paid, Owed, Ahead
<1>2. TypeOK /\ Sampled /\ Paid /\ [Next]_vars => Sampled' /\ Paid'
  BY SampledStep, PaidStep
<1> QED BY <1>1, <1>2, TypeCorrect, PTL DEF Spec

\* Every event stands for a rising edge of its own in the PLC, for any two
\* areas read one after the other and wherever a poll fails (plc.py:110-111,
\* 120-129; edges.py:10-16).
THEOREM EveryEventIsAnEdge == Spec => []NoPhantom
<1>1. TypeOK /\ Paid => NoPhantom
  BY DEF TypeOK, Paid, NoPhantom, Owed, Ahead
<1> QED BY <1>1, Accounts, TypeCorrect, PTL
-----------------------------------------------------------------------------
\* Every step of the poller, its readers and the PLC is a step of a line
\* source, or a stutter.
LEMMA StepRefines ==
  ASSUME TypeOK, Paid, [Next]_vars
  PROVE  [Source!LineNext]_Source!lineVars
<1> USE DEF Source!lineVars
<1>1. CASE Exit
  <2>1. Source!End
    BY <1>1 DEF Exit, Source!End, plcVars
  <2> QED BY <2>1 DEF Source!LineNext
<1>2. CASE KeepConnection \/ NeedsConnection
  <2>1. Source!Begin
    BY <1>2 DEF KeepConnection, NeedsConnection, Source!Begin, plcVars
  <2> QED BY <2>1 DEF Source!LineNext
<1>3. ASSUME NEW t \in Tags, Emit(t) PROVE Source!LineNext
  <2>1. counted[t] < rises[t]
    <3>1. counted[t] + Owed(t) + Ahead(t) <= rises[t] /\ Owed(t) = 1
      BY <1>3 DEF Paid, Emit, Owed
    <3>2. counted[t] \in Nat /\ rises[t] \in Nat /\ Ahead(t) \in 0 .. 2
      BY DEF TypeOK, Ahead
    <3> QED BY <3>1, <3>2
  <2>2. Source!Report(t)
    BY <1>3, <2>1 DEF Emit, Source!Report, plcVars
  <2> QED BY <2>2 DEF Source!LineNext
<1>4. CASE Flag \/ Close
  <2>1. Source!Finish
    BY <1>4 DEF Flag, Close, Source!Finish, plcVars
  <2> QED BY <2>1 DEF Source!LineNext
<1>5. CASE Stop
  <2>1. Source!Ask
    BY <1>5 DEF Stop, Source!Ask, plcVars, threadVars
  <2> QED BY <2>1 DEF Source!LineNext
<1>6. ASSUME NEW t \in Tags, TagRises(t) PROVE Source!LineNext
  <2>1. Source!Rise(t)
    BY <1>6 DEF TagRises, Source!Rise, threadVars
  <2> QED BY <2>1 DEF Source!LineNext
<1>7. CASE Connect \/ ConnectFails \/ ReadInputs \/ ReadOutputs \/ ReadFails \/ Detect
           \/ TakeLock \/ PublishRaw \/ PublishStamp \/ Unflag
  BY <1>7 DEF Connect, ConnectFails, ReadInputs, ReadOutputs, ReadArea, ReadFails, Detect,
              TakeLock, PublishRaw, PublishStamp, Unflag, plcVars
<1>8. CASE \/ LinkDrops \/ LinkReturns \/ (\E t \in Tags : TagFalls(t))
           \/ (\E r \in Readers : Snapshot(r)) \/ UNCHANGED vars
  BY <1>8 DEF LinkDrops, LinkReturns, TagFalls, Snapshot, BeginSnapshot, ReadConnected,
              ReadStale, ReadUpdate, ReadValues, Return, Answers, vars, plcVars, threadVars
<1> QED BY <1>1, <1>2, <1>3, <1>4, <1>5, <1>6, <1>7, <1>8 DEF Next, Poll, World

\* The poller implements a line source, whatever the areas, the readers and
\* the moments at which the link fails and stop is called (plc.py:76-79,
\* 105-132).
THEOREM PollerIsALineSource == Spec => ImplementsLineSource
<1>1. Init => Source!LineInit
  BY DEF Init, Source!LineInit
<1>2. TypeOK /\ Paid /\ [Next]_vars => [Source!LineNext]_Source!lineVars
  BY StepRefines
<1> QED BY <1>1, <1>2, Accounts, TypeCorrect, PTL
        DEF Spec, ImplementsLineSource, Source!LineSpec
=============================================================================
