------------------------ MODULE SourceManagerProofs -------------------------
(***************************************************************************)
(* Proofs about SourceManager, for any brokers and any number of sources   *)
(* and requests: its types and that the active source runs, also when      *)
(* requests overlap; and, as long as they do not, that a switch leaves one *)
(* source, its name and its counts, for readers of the statistics that     *)
(* overlap the switch.                                                     *)
(***************************************************************************)
EXTENDS SourceManager, TLAPS

Early == {"idle", "name", "broker", "build"}
Late == {"stop", "join", "source", "setName", "setBroker", "reset"}

Runs(i) == i \notin asked /\ (thread[i] = "none" <=> target[i] = Slot)

\* A source that no longer counts: its thread is over, or will be, late.
Spent(i) == thread[i] \in {"idle", "busy"} => i \in asked \cap abandoned

\* Sources are numbered as they are built, and the empty slot counts nothing.
Books ==
  /\ source <= built /\ target[source] \in Targets
  /\ \A i \in Ids : i > built => thread[i] = "none" /\ i \notin asked
  /\ \A i \in counted : thread[i] /= "none"
  /\ \A i \in Ids : thread[i] /= "none" => target[i] /= Slot

\* How far the switch of request c has come.
Phase(c) ==
  /\ pc[c] /= "idle" => up /\ want[c] \in {Direct} \cup Brokers
  /\ pc[c] \in Early => /\ up => Runs(source)
                        /\ \A i \in Ids \ {source} : Spent(i)
                        /\ counted \ abandoned \subseteq {source}
  /\ pc[c] \in Late => /\ new[c] \in Ids /\ new[c] <= built
                       /\ Runs(new[c]) /\ target[new[c]] = want[c]
                       /\ \A i \in Ids \ {source, new[c]} : Spent(i)
  /\ pc[c] \in {"stop", "join", "source"} => source /= new[c]
  /\ pc[c] = "join" => old[c] = source /\ source \in asked
  /\ pc[c] = "source" => Spent(source)
  /\ pc[c] \in {"setName", "setBroker", "reset"} => source = new[c]
  /\ pc[c] /= "setName" => name = NameOf(target[source])
  /\ pc[c] \notin {"setName", "setBroker"} => broker = BrokerOf(target[source])

\* While no source was built since reader q began, its connection is that of
\* the active source, and only pollers that were given up counted for another.
Reading(q, c) ==
  /\ stats[q].since <= built
  /\ at[q] \in {"line_ip", "points"} /\ stats[q].since = built => pc[c] \in Early
  /\ at[q] = "line_ip" /\ stats[q].since = built => target[source] \notin Brokers
  /\ at[q] = "points" /\ stats[q].since = built /\ target[source] /= Slot
       => stats[q].connection = target[source]
  /\ at[q] = "answered" /\ stats[q].quiet
       => \A i \in stats[q].points \ abandoned :
            i <= built /\ target[i] = stats[q].connection

\* A request that needs a source has one.
Locals ==
  \A r \in Requests : /\ pc[r] \in Late => new[r] \in Ids
                      /\ pc[r] = "join" => old[r] \in Ids

Alone(c) == c \in Requests /\ \A r \in Requests \ {c} : pc[r] = "idle"

\* The invariant while requests do not overlap: seen from a request that is
\* the only one inside switch, or from any when none is.
IInv ==
  TypeOK /\ Books /\ \A c \in Requests :
                       Alone(c) => Phase(c) /\ \A q \in Readers : Reading(q, c)
-----------------------------------------------------------------------------
Places == {"idle", "line_ip", "points", "answered"}
Answers == [connection : Targets \cup {None}, of : 0..MaxSources, points : SUBSET Ids,
            since : 0..MaxSources, quiet : BOOLEAN]

LEMMA StatsTyped ==
  ASSUME TypeOK, NEW q \in Readers, NEW from, NEW to \in Places,
         NEW fields \in Answers, Stats(q, from, to, fields)
  PROVE  TypeOK'
<1>1. at' \in [Readers -> Places]
  BY DEF TypeOK, Stats, Places
<1>2. stats' \in [Readers -> Answers]
  BY DEF TypeOK, Stats, Answers
<1> QED BY <1>1, <1>2 DEF TypeOK, Stats, Places, Answers, managerVars, threadVars, requestVars

LEMMA LocalsStep == ASSUME TypeOK, Locals, [Next]_vars PROVE Locals'
<1> USE DEF Locals, Late
<1>1. ASSUME NEW i \in Ids, Notice(i) \/ Deliver(i) \/ End(i) PROVE Locals'
  BY <1>1 DEF Notice, Deliver, End, requestVars
<1>2. ASSUME NEW r \in Requests, NEW t \in {Direct} \cup Brokers, Submit(r, t)
      PROVE  Locals'
  BY <1>2 DEF Submit, Goto, TypeOK
<1>3. ASSUME NEW r \in Requests, Switch(r) PROVE Locals'
  <2>1. CASE CompareName(r) \/ CompareBroker(r) \/ StartFails(r) \/ Join(r)
             \/ JoinTimesOut(r)
    BY <1>3, <2>1 DEF CompareName, CompareBroker, StartFails, Join, JoinTimesOut, Goto, TypeOK
  <2>2. CASE BuildAndStart(r)
    <3>1. built' \in Ids
      BY <2>2, SourcesAssumption DEF BuildAndStart, TypeOK, Ids
    <3> QED BY <2>2, <3>1 DEF BuildAndStart, Goto, TypeOK
  <2>3. CASE StopOld(r)
    BY <2>3 DEF StopOld, Goto, TypeOK
  <2>4. CASE SetSource(r) \/ SetName(r) \/ SetBroker(r) \/ FireConnectionChange(r)
    BY <2>4 DEF SetSource, SetName, SetBroker, FireConnectionChange, Goto, TypeOK
  <2> QED BY <1>3, <2>1, <2>2, <2>3, <2>4 DEF Switch
<1>4. CASE (\E q \in Readers : GetStats(q)) \/ Shutdown \/ UNCHANGED vars
  BY <1>4 DEF GetStats, ReadBroker, ReadLineIp, ReadPoints, Return, Stats, Shutdown,
              vars, requestVars
<1> QED BY <1>1, <1>2, <1>3, <1>4 DEF Next

LEMMA InitTyped == Init => TypeOK /\ Locals
<1> SUFFICES ASSUME Init PROVE TypeOK /\ Locals
  OBVIOUS
<1>1. stats \in [Readers -> Answers]
  <2>1. NoStats \in Answers
    BY SourcesAssumption DEF NoStats, Answers, Ids
  <2> QED BY <2>1 DEF Init
<1>2. source \in Ids /\ built \in Ids
  BY SourcesAssumption DEF Init, Ids
<1> QED BY <1>1, <1>2 DEF Init, TypeOK, Answers, Targets, NameOf, Locals, Late

\* Every reachable state of the manager, its sources and all requests is well
\* typed, however many requests overlap (source_manager.py:96-175).
THEOREM TypeCorrect == Spec => []TypeOK
<1>1. Init => TypeOK /\ Locals
  BY InitTyped
<1>2. TypeOK /\ Locals /\ [Next]_vars => TypeOK'
  <2> SUFFICES ASSUME TypeOK, Locals, [Next]_vars PROVE TypeOK'
    OBVIOUS
  <2>1. ASSUME NEW i \in Ids, Notice(i) \/ Deliver(i) \/ End(i) PROVE TypeOK'
    BY <2>1 DEF Notice, Deliver, End, TypeOK, managerVars, requestVars, readerVars
  <2>2. ASSUME NEW r \in Requests, NEW t \in {Direct} \cup Brokers, Submit(r, t)
        PROVE  TypeOK'
    BY <2>2 DEF Submit, Goto, TypeOK, Targets, managerVars, threadVars, readerVars
  <2>3. ASSUME NEW r \in Requests, Switch(r) PROVE TypeOK'
    <3>1. CASE CompareName(r) \/ CompareBroker(r) \/ StartFails(r) \/ Join(r)
      BY <3>1 DEF CompareName, CompareBroker, StartFails, Join, Goto, TypeOK,
                  managerVars, threadVars, readerVars
    <3>2. CASE BuildAndStart(r)
      <4>1. built' \in Ids
        BY <3>2, SourcesAssumption DEF BuildAndStart, TypeOK, Ids
      <4> QED BY <3>2, <4>1 DEF BuildAndStart, Goto, TypeOK, managerVars, readerVars
    <3>3. CASE StopOld(r) \/ JoinTimesOut(r)
      <4>1. JoinTimesOut(r) => old[r] \in Ids
        BY DEF JoinTimesOut, Goto, Locals
      <4> QED BY <3>3, <4>1 DEF StopOld, JoinTimesOut, Goto, TypeOK, managerVars, readerVars
    <3>4. CASE SetSource(r)
      <4>1. new[r] \in Ids
        BY <3>4 DEF SetSource, Goto, Locals, Late
      <4> QED BY <3>4, <4>1 DEF SetSource, Goto, TypeOK, threadVars, readerVars
    <3>5. CASE SetName(r) \/ SetBroker(r) \/ FireConnectionChange(r)
      BY <3>5 DEF SetName, SetBroker, FireConnectionChange, NameOf, BrokerOf,
                  Goto, TypeOK, managerVars, threadVars, readerVars
    <3> QED BY <2>3, <3>1, <3>2, <3>3, <3>4, <3>5 DEF Switch
  <2>4. ASSUME NEW q \in Readers, GetStats(q) PROVE TypeOK'
    <3>1. stats[q] \in Answers /\ NoStats \in Answers
      BY SourcesAssumption DEF TypeOK, Answers, NoStats, Ids
    <3>2. source \in 0 .. MaxSources /\ target[source] \in Targets \cup {None}
      BY SourcesAssumption DEF TypeOK, Ids
    <3>3. CASE ReadBroker(q)
      <4> DEFINE b == BrokerOf(target[source])
                 since == IF Quiet THEN built ELSE 0
                 to == IF b = None THEN "line_ip" ELSE "points"
                 fields == [NoStats EXCEPT !.connection = b, !.of = source, !.since = since]
      <4>1. b \in Targets \cup {None} /\ since \in 0 .. MaxSources /\ to \in Places
        BY SourcesAssumption DEF BrokerOf, Targets, TypeOK, Ids, Places
      <4>2. Stats(q, "idle", to, fields)
        BY <3>3 DEF ReadBroker
      <4> HIDE DEF b, since, to
      <4>3. fields \in Answers
        BY <3>1, <3>2, <4>1 DEF Answers
      <4> QED BY <4>1, <4>2, <4>3, StatsTyped
    <3>4. CASE ReadLineIp(q)
      <4> DEFINE connection == IF target[source] = Direct THEN Direct ELSE None
                 fields == [stats[q] EXCEPT !.connection = connection, !.of = source]
      <4>1. connection \in Targets \cup {None}
        BY DEF Targets
      <4>2. Stats(q, "line_ip", "points", fields)
        BY <3>4 DEF ReadLineIp
      <4> HIDE DEF connection
      <4>3. fields \in Answers
        BY <3>1, <3>2, <4>1 DEF Answers
      <4> QED BY <4>2, <4>3, StatsTyped DEF Places
    <3>5. CASE ReadPoints(q)
      <4> DEFINE quiet == Quiet /\ stats[q].since = built
                 fields == [stats[q] EXCEPT !.points = counted, !.quiet = quiet]
      <4>1. quiet \in BOOLEAN
        BY Zenon DEF Quiet
      <4>2. Stats(q, "points", "answered", fields)
        BY <3>5 DEF ReadPoints
      <4> HIDE DEF quiet
      <4>3. fields \in Answers
        BY <3>1, <4>1 DEF Answers, TypeOK
      <4> QED BY <4>2, <4>3, StatsTyped DEF Places
    <3>6. CASE Return(q)
      BY <3>1, <3>6, StatsTyped DEF Return, Places
    <3> QED BY <2>4, <3>3, <3>4, <3>5, <3>6 DEF GetStats
  <2>5. CASE Shutdown
    BY <2>5 DEF Shutdown, TypeOK, managerVars, requestVars, readerVars
  <2>6. CASE UNCHANGED vars
    BY <2>6 DEF vars, TypeOK, managerVars, threadVars, requestVars, readerVars
  <2> QED BY <2>1, <2>2, <2>3, <2>4, <2>5, <2>6 DEF Next
<1>3. TypeOK /\ Locals /\ [Next]_vars => Locals'
  BY LocalsStep
<1> QED BY <1>1, <1>2, <1>3, PTL DEF Spec
-----------------------------------------------------------------------------
(* Any requests, however many overlap. *)

Waiting == {"stop", "join", "source"}

\* A request about to install a source holds one that nobody else installs,
\* and a source is told to stop only by a request that will replace it.
Handover ==
  /\ source <= built
  /\ \A i \in Ids : i > built => thread[i] = "none" /\ i \notin asked
  /\ \A i \in Ids : i <= built =>
       target[i] \in Targets /\ (thread[i] = "none" <=> target[i] = Slot)
  /\ \A r \in Requests : pc[r] /= "idle" => up /\ want[r] \in {Direct} \cup Brokers
  /\ \A r \in Requests : pc[r] \in Waiting =>
       /\ new[r] \in Ids /\ new[r] <= built
       /\ new[r] /= source /\ new[r] \notin asked
       /\ \A s \in Requests \ {r} : pc[s] \in Waiting => new[s] /= new[r]
  /\ source \in asked /\ up => \E r \in Requests : pc[r] \in {"join", "source"}

LEMMA HandoverStep == ASSUME TypeOK, Handover, [Next]_vars PROVE Handover'
<1> USE DEF Handover, Waiting
<1>0. /\ pc \in [Requests -> Early \cup Late]
      /\ source \in Ids /\ built \in Ids /\ Ids \subseteq Nat
      /\ want \in [Requests -> Targets \cup {None}]
      /\ target \in [Ids -> Targets \cup {None}]
      /\ thread \in [Ids -> {"none", "idle", "busy", "over"}]
      /\ new \in [Requests -> Ids \cup {None}] /\ asked \subseteq Ids
  BY SourcesAssumption DEF TypeOK, Ids, Early, Late
<1>1. ASSUME NEW i \in Ids, Notice(i) \/ Deliver(i) \/ End(i) PROVE Handover'
  BY <1>0, <1>1 DEF Notice, Deliver, End, managerVars, requestVars
<1>2. ASSUME NEW r \in Requests, NEW t \in {Direct} \cup Brokers, Submit(r, t)
      PROVE  Handover'
  BY <1>0, <1>2 DEF Submit, Goto, managerVars, threadVars
<1>3. ASSUME NEW r \in Requests, CompareName(r) \/ CompareBroker(r) \/ StartFails(r)
      PROVE  Handover'
  BY <1>0, <1>3 DEF CompareName, CompareBroker, StartFails, Goto, managerVars, threadVars
<1>4. ASSUME NEW r \in Requests, BuildAndStart(r) PROVE Handover'
  <2>1. /\ UNCHANGED <<source, want, asked, up>> /\ built' = built + 1 /\ built' \in Ids
        /\ pc[r] = "build" /\ pc' = [pc EXCEPT ![r] = "stop"]
        /\ new' = [new EXCEPT ![r] = built']
        /\ target' = [target EXCEPT ![built'] = want[r]]
        /\ thread' = [thread EXCEPT ![built'] = "idle"]
    BY <1>0, <1>4, SourcesAssumption DEF BuildAndStart, Goto, managerVars, Ids
  <2>2. want[r] \in Targets /\ want[r] /= Slot
    BY <2>1, BrokersAssumption DEF Targets, Direct, Slot
  <2>3. built' > built /\ source' <= built' /\ built' /= source /\ built' \notin asked
    BY <1>0, <2>1
  <2>4. \A i \in Ids : i > built' => thread'[i] = "none" /\ i \notin asked'
    BY <1>0, <2>1
  <2>5. ASSUME NEW i \in Ids, i <= built'
        PROVE  target'[i] \in Targets /\ (thread'[i] = "none" <=> target'[i] = Slot)
    <3>1. CASE i = built'
      BY <1>0, <2>1, <2>2, <3>1
    <3>2. CASE i /= built'
      <4>1. i <= built
        BY <1>0, <2>1, <2>5, <3>2
      <4> QED BY <1>0, <2>1, <3>2, <4>1
    <3> QED BY <3>1, <3>2
  <2>6. ASSUME NEW s \in Requests, pc'[s] \in Waiting
        PROVE  /\ new'[s] \in Ids /\ new'[s] <= built'
               /\ new'[s] /= source' /\ new'[s] \notin asked'
               /\ s /= r => new'[s] /= built'
    <3>1. CASE s = r
      BY <1>0, <2>1, <2>3, <3>1
    <3>2. CASE s /= r
      <4>1. pc[s] \in Waiting /\ new'[s] = new[s]
        BY <1>0, <2>1, <2>6, <3>2
      <4>2. /\ new[s] \in Ids /\ new[s] <= built
            /\ new[s] /= source /\ new[s] \notin asked
        BY <4>1
      <4>3. new[s] \in Nat /\ built \in Nat /\ built' = built + 1
        BY <1>0, <2>1, <4>2
      <4>4. new[s] <= built' /\ new[s] /= built'
        BY <4>2, <4>3
      <4> QED BY <2>1, <4>1, <4>2, <4>4
    <3> QED BY <3>1, <3>2
  <2>7. \A s \in Requests : \A q \in Requests \ {s} :
          pc'[s] \in Waiting /\ pc'[q] \in Waiting => new'[q] /= new'[s]
    BY <1>0, <2>1, <2>6
  <2>8. /\ \A s \in Requests : pc'[s] /= "idle" => up' /\ want'[s] \in {Direct} \cup Brokers
        /\ source' \in asked' /\ up' => \E s \in Requests : pc'[s] \in {"join", "source"}
    BY <1>0, <2>1
  <2> QED BY <2>3, <2>4, <2>5, <2>6, <2>7, <2>8
<1>5. ASSUME NEW r \in Requests, StopOld(r) PROVE Handover'
  BY <1>0, <1>5 DEF StopOld, Goto, managerVars
<1>6. ASSUME NEW r \in Requests, Join(r) \/ JoinTimesOut(r) PROVE Handover'
  BY <1>0, <1>6 DEF Join, JoinTimesOut, Goto, managerVars, threadVars
<1>7. ASSUME NEW r \in Requests, SetSource(r) PROVE Handover'
  BY <1>0, <1>7 DEF SetSource, Goto, threadVars
<1>8. ASSUME NEW r \in Requests, SetName(r) \/ SetBroker(r) \/ FireConnectionChange(r)
      PROVE  Handover'
  BY <1>0, <1>8 DEF SetName, SetBroker, FireConnectionChange, Goto, threadVars, managerVars
<1>9. CASE Shutdown
  BY <1>0, <1>9 DEF Shutdown, Quiet, managerVars, requestVars
<1>10. CASE (\E q \in Readers : GetStats(q)) \/ UNCHANGED vars
  <2>1. UNCHANGED <<managerVars, target, threadVars, built, counted, requestVars, up>>
    BY <1>10 DEF GetStats, ReadBroker, ReadLineIp, ReadPoints, Return, Stats, vars
  <2> QED BY <1>0, <2>1 DEF managerVars, threadVars, requestVars
<1> QED BY <1>1, <1>2, <1>3, <1>4, <1>5, <1>6, <1>7, <1>8, <1>9, <1>10 DEF Next, Switch

\* Whenever no switch is under way the active source runs, whatever switches
\* there were, done, refused, failed half-way or overlapping: a switch storm
\* may leave sources behind, but never an active one that was stopped
\* (source_manager.py:132-139).
THEOREM ActiveSourceRuns == Spec => []SourceIsLive
<1>1. Init => Handover
  <2> SUFFICES ASSUME Init PROVE Handover
    OBVIOUS
  <2>1. 1 \in Ids /\ \A i \in Ids : i <= 1 <=> i = 1
    BY SourcesAssumption DEF Ids
  <2>2. /\ target[1] \in {Direct, Slot}
        /\ thread[1] = "none" <=> target[1] = Slot
        /\ \A i \in Ids \ {1} : thread[i] = "none"
    BY <2>1 DEF Init, Direct, Slot
  <2>3. \A i \in Ids : i > 1 => i /= 1
    BY SourcesAssumption DEF Ids
  <2> QED BY <2>1, <2>2, <2>3 DEF Init, Handover, Targets, Waiting
<1>2. TypeOK /\ Handover /\ [Next]_vars => Handover'
  BY HandoverStep
<1>3. TypeOK /\ Handover => SourceIsLive
  <2>1. source \in Ids => source \in Nat
    BY SourcesAssumption DEF Ids
  <2> QED BY <2>1 DEF TypeOK, Handover, SourceIsLive, Quiet
<1> QED BY <1>1, <1>2, <1>3, TypeCorrect, PTL DEF Spec

-----------------------------------------------------------------------------
(* One request at a time. *)

\* No request begins to switch before the one before it is answered, which
\* the code itself does not see to: SourceManager has no lock.
OneAtATime == \A r, s \in Requests : pc[r] /= "idle" /\ pc[s] /= "idle" => r = s

\* A step of the manager is one of the request that is alone, or of nobody.
LEMMA StepOfOne ==
  ASSUME NEW c, Alone(c), Alone(c)', TypeOK, [Next]_vars
  PROVE  \/ \E i \in Ids : Notice(i) \/ Deliver(i) \/ End(i)
         \/ \E t \in {Direct} \cup Brokers : Submit(c, t)
         \/ Switch(c)
         \/ \E q \in Readers : GetStats(q)
         \/ Shutdown \/ UNCHANGED vars
<1>1. ASSUME NEW r \in Requests, Switch(r) PROVE r = c
  <2>1. pc[r] /= "idle"
    BY <1>1 DEF Switch, CompareName, CompareBroker, BuildAndStart, StartFails, StopOld,
                Join, JoinTimesOut, SetSource, SetName, SetBroker, FireConnectionChange, Goto
  <2> QED BY <2>1 DEF Alone
<1>2. ASSUME NEW r \in Requests, NEW t \in {Direct} \cup Brokers, Submit(r, t)
      PROVE  r = c
  <2>1. pc'[r] = "name"
    BY <1>2 DEF Submit, Goto, TypeOK
  <2> QED BY <2>1 DEF Alone
<1> QED BY <1>1, <1>2 DEF Next

\* One request is alone before and after each step.
LEMMA SomeoneAlone ==
  ASSUME TypeOK, OneAtATime, OneAtATime', [Next]_vars
  PROVE  \E c \in Requests : Alone(c) /\ Alone(c)'
<1>1. PICK x \in Requests : \A r \in Requests \ {x} : pc'[r] = pc[r]
  <2>1. ASSUME NEW x \in Requests, Switch(x) \/ \E t \in {Direct} \cup Brokers : Submit(x, t)
        PROVE  \A r \in Requests \ {x} : pc'[r] = pc[r]
    BY <2>1 DEF Switch, CompareName, CompareBroker, BuildAndStart, StartFails, StopOld, Join,
                JoinTimesOut, SetSource, SetName, SetBroker, FireConnectionChange, Submit,
                Goto, TypeOK
  <2>2. CASE \/ \E i \in Ids : Notice(i) \/ Deliver(i) \/ End(i)
             \/ \E q \in Readers : GetStats(q)
             \/ Shutdown \/ UNCHANGED vars
    <3>1. pc' = pc
      BY <2>2 DEF Notice, Deliver, End, GetStats, ReadBroker, ReadLineIp, ReadPoints, Return,
                  Stats, Shutdown, vars, requestVars
    <3> QED BY <3>1, RequestsAssumption
  <2> QED BY <2>1, <2>2 DEF Next
<1>2. CASE \E c \in Requests : pc[c] /= "idle"
  BY <1>1, <1>2 DEF OneAtATime, Alone
<1>3. CASE \A c \in Requests : pc[c] = "idle"
  BY <1>1, <1>3 DEF Alone
<1> QED BY <1>2, <1>3

LEMMA BooksStep ==
  ASSUME NEW c, Alone(c), Alone(c)', TypeOK, Books, Phase(c), [Next]_vars
  PROVE  Books'
<1> USE DEF Books
<1>1. ASSUME NEW i \in Ids, Notice(i) \/ Deliver(i) \/ End(i) PROVE Books'
  BY <1>1 DEF Notice, Deliver, End, managerVars, TypeOK
<1>2. CASE \E t \in {Direct} \cup Brokers : Submit(c, t)
  BY <1>2 DEF Submit, managerVars, threadVars
<1>3. CASE CompareName(c) \/ CompareBroker(c) \/ StartFails(c) \/ Join(c) \/ JoinTimesOut(c)
  BY <1>3 DEF CompareName, CompareBroker, StartFails, Join, JoinTimesOut,
              managerVars, threadVars
<1>4. CASE BuildAndStart(c)
  <2>1. /\ source' = source /\ built' = built + 1 /\ UNCHANGED <<asked, counted>>
        /\ want[c] \in {Direct} \cup Brokers
        /\ target' = [target EXCEPT ![built + 1] = want[c]]
        /\ thread' = [thread EXCEPT ![built + 1] = "idle"]
    BY <1>4 DEF BuildAndStart, Goto, Phase, managerVars
  <2>2. source \in Ids /\ built \in Ids /\ source \in Nat /\ built \in Nat /\ Ids \subseteq Nat
    BY SourcesAssumption DEF TypeOK, Ids
  <2>3. /\ target \in [Ids -> Targets \cup {None}] /\ counted \subseteq Ids
        /\ thread \in [Ids -> {"none", "idle", "busy", "over"}]
    BY DEF TypeOK
  <2>4. want[c] \in Targets /\ want[c] /= Slot
    BY <2>1, BrokersAssumption DEF Targets, Direct, Slot
  <2>5. source' <= built' /\ target'[source'] \in Targets
    BY <2>1, <2>2, <2>3
  <2>6. \A i \in Ids : i > built' => thread'[i] = "none" /\ i \notin asked'
    BY <2>1, <2>2, <2>3
  <2>7. \A i \in counted' : thread'[i] /= "none"
    BY <2>1, <2>2, <2>3
  <2>8. \A i \in Ids : thread'[i] /= "none" => target'[i] /= Slot
    BY <2>1, <2>2, <2>3, <2>4
  <2> QED BY <2>5, <2>6, <2>7, <2>8
<1>5. CASE StopOld(c)
  <2>1. source \in Ids /\ built \in Ids /\ Ids \subseteq Nat
    BY SourcesAssumption DEF TypeOK, Ids
  <2> QED BY <1>5, <2>1 DEF StopOld, managerVars
<1>6. CASE SetSource(c)
  <2>1. new[c] <= built /\ target[new[c]] = want[c] /\ want[c] \in Targets
    BY <1>6 DEF SetSource, Goto, Phase, Late, Targets
  <2> QED BY <1>6, <2>1 DEF SetSource, threadVars
<1>7. CASE SetName(c) \/ SetBroker(c) \/ FireConnectionChange(c)
  BY <1>7 DEF SetName, SetBroker, FireConnectionChange, threadVars, managerVars
<1>8. CASE Shutdown
  <2>1. source \in Ids /\ built \in Ids /\ Ids \subseteq Nat
    BY SourcesAssumption DEF TypeOK, Ids
  <2> QED BY <1>8, <2>1 DEF Shutdown, managerVars
<1>9. CASE (\E q \in Readers : GetStats(q)) \/ UNCHANGED vars
  BY <1>9 DEF GetStats, ReadBroker, ReadLineIp, ReadPoints, Return, Stats,
              vars, managerVars, threadVars
<1> QED BY StepOfOne, <1>1, <1>2, <1>3, <1>4, <1>5, <1>6, <1>7, <1>8, <1>9 DEF Switch

LEMMA PhaseStep ==
  ASSUME NEW c, Alone(c), Alone(c)', TypeOK, Books, Phase(c), [Next]_vars
  PROVE  Phase(c)'
<1> USE DEF Phase, Early, Late
<1>0. /\ pc \in [Requests -> Early \cup Late] /\ c \in Requests
      /\ source \in Ids /\ built \in Ids /\ Ids \subseteq Nat
      /\ want \in [Requests -> Targets \cup {None}]
      /\ target \in [Ids -> Targets \cup {None}]
      /\ thread \in [Ids -> {"none", "idle", "busy", "over"}]
      /\ new \in [Requests -> Ids \cup {None}] /\ old \in [Requests -> Ids \cup {None}]
      /\ asked \subseteq Ids /\ abandoned \subseteq Ids /\ counted \subseteq Ids
  BY SourcesAssumption DEF TypeOK, Ids, Alone
<1>1. ASSUME NEW i \in Ids, Notice(i) PROVE Phase(c)'
  BY <1>0, <1>1 DEF Notice, Runs, Spent, managerVars, requestVars
<1>2. ASSUME NEW i \in Ids, Deliver(i) PROVE Phase(c)'
  BY <1>0, <1>2 DEF Deliver, Runs, Spent, managerVars, requestVars
<1>3. ASSUME NEW i \in Ids, End(i) PROVE Phase(c)'
  BY <1>0, <1>3 DEF End, Runs, Spent, managerVars, requestVars
<1>4. ASSUME NEW t \in {Direct} \cup Brokers, Submit(c, t) PROVE Phase(c)'
  BY <1>0, <1>4 DEF Submit, Goto, Runs, Spent, managerVars, threadVars
<1>5. CASE CompareName(c) \/ CompareBroker(c) \/ StartFails(c)
  BY <1>0, <1>5 DEF CompareName, CompareBroker, StartFails, Goto, Runs, Spent,
                    managerVars, threadVars
<1>6. CASE BuildAndStart(c)
  <2>1. /\ UNCHANGED <<source, name, broker, want, asked, abandoned, counted, up>>
        /\ pc[c] = "build" /\ pc'[c] = "stop" /\ built' = built + 1 /\ built' \in Ids
        /\ new'[c] = built' /\ target'[built'] = want[c] /\ thread'[built'] = "idle"
        /\ \A i \in Ids \ {built'} : target'[i] = target[i] /\ thread'[i] = thread[i]
        /\ built' \in Nat /\ built' <= built' /\ built' > built
    BY <1>0, <1>6, SourcesAssumption DEF BuildAndStart, Goto, managerVars, Ids
  <2>2. source /= built' /\ built' \notin asked
    <3>1. source <= built /\ (built' > built => built' \notin asked)
      BY <2>1 DEF Books
    <3> QED BY <1>0, <2>1, <3>1
  <2>3. want[c] /= Slot
    BY <2>1, BrokersAssumption DEF Direct, Slot
  <2>4. Runs(new[c])' /\ target'[new'[c]] = want'[c]
    BY <2>1, <2>2, <2>3 DEF Runs
  <2>5. \A i \in Ids \ {source', new'[c]} : Spent(i)'
    BY <2>1 DEF Spent
  <2>6. target'[source'] = target[source]
    BY <1>0, <2>1, <2>2
  <2> QED BY <2>1, <2>2, <2>4, <2>5, <2>6
<1>7. CASE StopOld(c)
  BY <1>0, <1>7 DEF StopOld, Goto, Runs, Spent, managerVars
<1>8. CASE Join(c) \/ JoinTimesOut(c)
  BY <1>0, <1>8 DEF Join, JoinTimesOut, Goto, Runs, Spent, managerVars, threadVars
<1>9. CASE SetSource(c)
  BY <1>0, <1>9 DEF SetSource, Goto, Runs, Spent, threadVars
<1>10. CASE SetName(c) \/ SetBroker(c)
  BY <1>0, <1>10 DEF SetName, SetBroker, Goto, Runs, Spent, threadVars
<1>11. CASE FireConnectionChange(c)
  BY <1>0, <1>11 DEF FireConnectionChange, Goto, Runs, Spent, managerVars, threadVars
<1>12. CASE Shutdown
  BY <1>0, <1>12 DEF Shutdown, Quiet, Runs, Spent, managerVars, requestVars
<1>13. CASE (\E q \in Readers : GetStats(q)) \/ UNCHANGED vars
  <2>1. UNCHANGED <<managerVars, target, threadVars, built, counted, requestVars, up>>
    BY <1>13 DEF GetStats, ReadBroker, ReadLineIp, ReadPoints, Return, Stats, vars
  <2> QED BY <1>0, <2>1 DEF Runs, Spent, managerVars, threadVars, requestVars
<1> QED BY StepOfOne, <1>1, <1>2, <1>3, <1>4, <1>5, <1>6, <1>7, <1>8, <1>9, <1>10, <1>11,
           <1>12, <1>13 DEF Switch

LEMMA ReadingStep ==
  ASSUME NEW c, Alone(c), Alone(c)', TypeOK, Books, Phase(c), [Next]_vars,
         NEW q \in Readers, Reading(q, c)
  PROVE  Reading(q, c)'
<1> USE DEF Reading, Early, Late
<1>0. /\ pc \in [Requests -> Early \cup Late] /\ c \in Requests
      /\ source \in Ids /\ built \in Ids /\ Ids \subseteq Nat /\ built > 0
      /\ target \in [Ids -> Targets \cup {None}]
      /\ at \in [Readers -> Places] /\ stats \in [Readers -> Answers]
      /\ \A p \in Readers : stats[p].since \in Nat /\ stats[p].points \subseteq Ids
  BY SourcesAssumption DEF TypeOK, Ids, Places, Answers, Alone
<1>1. ASSUME NEW i \in Ids, Notice(i) \/ Deliver(i) \/ End(i) PROVE Reading(q, c)'
  BY <1>1 DEF Notice, Deliver, End, managerVars, requestVars, readerVars
<1>2. CASE \E t \in {Direct} \cup Brokers : Submit(c, t)
  BY <1>0, <1>2 DEF Submit, Goto, managerVars, threadVars, readerVars
<1>3. CASE CompareName(c) \/ CompareBroker(c) \/ StartFails(c)
  BY <1>0, <1>3 DEF CompareName, CompareBroker, StartFails, Goto, managerVars, threadVars, readerVars
<1>4. CASE BuildAndStart(c)
  <2>1. /\ UNCHANGED <<at, stats>> /\ built' = built + 1 /\ built' \in Nat
        /\ \A i \in Ids : i <= built => target'[i] = target[i]
    BY <1>0, <1>4 DEF BuildAndStart, readerVars
  <2>2. stats[q].since < built'
    <3>1. stats[q].since \in Nat /\ built \in Nat
      BY <1>0
    <3>2. stats[q].since <= built
      OBVIOUS
    <3> QED BY <2>1, <3>1, <3>2
  <2>3. ASSUME NEW i \in stats[q].points \ abandoned, i <= built
        PROVE  i <= built' /\ target'[i] = target[i]
    <3>1. i \in Ids /\ i \in Nat /\ built \in Nat
      BY <1>0
    <3> QED BY <2>1, <2>3, <3>1
  <2>4. abandoned' = abandoned
    BY <1>4 DEF BuildAndStart
  <2> QED BY <1>0, <2>1, <2>2, <2>3, <2>4
<1>5. CASE StopOld(c) \/ Join(c) \/ JoinTimesOut(c) \/ SetSource(c) \/ SetName(c)
           \/ SetBroker(c) \/ FireConnectionChange(c)
  <2>1. pc[c] \in Late /\ UNCHANGED <<built, target, at, stats>>
    BY <1>5 DEF StopOld, Join, JoinTimesOut, SetSource, SetName, SetBroker,
                FireConnectionChange, Goto, managerVars, threadVars, readerVars
  <2>2. ~(at[q] \in {"line_ip", "points"} /\ stats[q].since = built)
    BY <2>1
  <2>3. abandoned \subseteq abandoned'
    BY <1>5 DEF StopOld, Join, JoinTimesOut, SetSource, SetName, SetBroker,
                FireConnectionChange, threadVars
  <2> QED BY <2>1, <2>2, <2>3
<1>6. CASE Shutdown
  BY <1>6 DEF Shutdown, managerVars, requestVars, readerVars
<1>7. ASSUME NEW p \in Readers, GetStats(p), p /= q PROVE Reading(q, c)'
  <2>1. UNCHANGED <<managerVars, target, threadVars, built, counted, requestVars, up>>
        /\ at'[q] = at[q] /\ stats'[q] = stats[q]
    BY <1>0, <1>7 DEF GetStats, ReadBroker, ReadLineIp, ReadPoints, Return, Stats
  <2> QED BY <2>1 DEF managerVars, threadVars, requestVars
<1>8. CASE GetStats(q)
  <2>1. UNCHANGED <<managerVars, target, threadVars, built, counted, requestVars, up>>
    BY <1>8 DEF GetStats, ReadBroker, ReadLineIp, ReadPoints, Return, Stats
  <2>2. UNCHANGED <<source, target, abandoned, built, pc>>
    BY <2>1 DEF managerVars, threadVars, requestVars
  <2>3. target[source] \in Targets
    BY DEF Books
  <2>4. CASE ReadBroker(q)
    <3> DEFINE b == BrokerOf(target[source])
               since == IF Quiet THEN built ELSE 0
               fields == [NoStats EXCEPT !.connection = b, !.of = source, !.since = since]
    <3>1. /\ b /= None => b = target[source]
          /\ b = None => target[source] \notin Brokers
      BY BrokersAssumption DEF BrokerOf
    <3>2. since <= built /\ (since = built => pc[c] = "idle")
      BY <1>0 DEF Quiet
    <3>3. at'[q] = (IF b = None THEN "line_ip" ELSE "points") /\ stats'[q] = fields
      BY <1>0, <2>4 DEF ReadBroker, Stats
    <3> HIDE DEF b, since
    <3>4. fields.connection = b /\ fields.since = since
      BY DEF NoStats
    <3> HIDE DEF fields
    <3> QED BY <2>2, <3>1, <3>2, <3>3, <3>4
  <2>5. CASE ReadLineIp(q)
    <3>1. /\ at[q] = "line_ip" /\ at'[q] = "points"
          /\ stats'[q].since = stats[q].since
          /\ stats'[q].connection = IF target[source] = Direct THEN Direct ELSE None
      BY <1>0, <2>5 DEF ReadLineIp, Stats, Answers
    <3> QED BY <2>2, <2>3, <3>1 DEF Targets
  <2>6. CASE ReadPoints(q)
    <3> DEFINE quiet == Quiet /\ stats[q].since = built
               fields == [stats[q] EXCEPT !.points = counted, !.quiet = quiet]
    <3>1. at[q] = "points" /\ at'[q] = "answered" /\ stats'[q] = fields
      BY <1>0, <2>6 DEF ReadPoints, Stats
    <3>2. quiet \in BOOLEAN
      BY Zenon DEF Quiet
    <3>3. ASSUME quiet, NEW i \in counted \ abandoned
          PROVE  i <= built /\ target[i] = stats[q].connection
      <4>1. pc[c] = "idle" /\ stats[q].since = built
        BY <1>0, <3>3 DEF Quiet
      <4>2. i = source
        BY <3>3, <4>1 DEF Phase
      <4>3. target[source] /= Slot /\ source <= built
        BY <1>0, <3>3, <4>2 DEF Books
      <4> QED BY <3>1, <4>1, <4>2, <4>3
    <3> HIDE DEF quiet
    <3>4. /\ fields.points = counted /\ fields.quiet = quiet
          /\ fields.since = stats[q].since /\ fields.connection = stats[q].connection
      BY <1>0 DEF Answers
    <3> HIDE DEF fields
    <3> QED BY <2>2, <3>1, <3>2, <3>3, <3>4
  <2>7. CASE Return(q)
    <3>1. at'[q] = "idle" /\ stats'[q] = NoStats
      BY <1>0, <2>7 DEF Return, Stats
    <3>2. NoStats.since = 0
      BY DEF NoStats
    <3> QED BY <1>0, <2>2, <3>1, <3>2
  <2> QED BY <1>8, <2>4, <2>5, <2>6, <2>7 DEF GetStats
<1>9. CASE UNCHANGED vars
  BY <1>9 DEF vars, managerVars, threadVars, requestVars, readerVars
<1> QED BY StepOfOne, <1>1, <1>2, <1>3, <1>4, <1>5, <1>6, <1>7, <1>8, <1>9 DEF Switch

LEMMA InvariantStep ==
  ASSUME IInv, OneAtATime, OneAtATime', TypeOK', [Next]_vars
  PROVE  IInv'
<1>1. PICK c \in Requests : Alone(c) /\ Alone(c)'
  BY SomeoneAlone DEF IInv
<1>2. Books' /\ Phase(c)' /\ (\A q \in Readers : Reading(q, c))'
  BY <1>1, BooksStep, PhaseStep, ReadingStep DEF IInv
\* Two requests that are both alone are both idle, and see the same.
<1>3. ASSUME NEW d \in Requests, Alone(d)'
      PROVE  Phase(d)' /\ (\A q \in Readers : Reading(q, d))'
  <2>1. CASE d = c
    BY <1>2, <2>1
  <2>2. CASE d /= c
    <3>1. pc'[c] = "idle" /\ pc'[d] = "idle"
      BY <1>1, <1>3, <2>2 DEF Alone
    <3>2. Phase(d)'
      BY <1>2, <3>1 DEF Phase, Early, Late
    <3>3. (\A q \in Readers : Reading(q, d))'
      BY <1>2, <3>1 DEF Reading, Early
    <3> QED BY <3>2, <3>3
  <2> QED BY <2>1, <2>2
<1> QED BY <1>2, <1>3 DEF IInv

\* Each property is one of the phase of a request that is alone.
LEMMA Invariant ==
  /\ Spec /\ []OneAtATime => []IInv
  /\ IInv /\ OneAtATime => \E c \in Requests : /\ Phase(c) /\ (Quiet => pc[c] = "idle")
                                              /\ \A q \in Readers : Reading(q, c)
<1>1. Init => IInv
  <2> SUFFICES ASSUME Init, NEW c \in Requests
               PROVE  TypeOK /\ Books /\ Phase(c) /\ \A q \in Readers : Reading(q, c)
    BY RequestsAssumption DEF IInv
  <2>1. 1 \in Ids /\ Ids \subseteq Nat
    BY SourcesAssumption DEF Ids
  <2>2. target[1] \in {Direct, Slot} /\ name = NameOf(target[1])
        /\ (thread[1] = "none" <=> target[1] = Slot)
        /\ \A i \in Ids \ {1} : thread[i] = "none" /\ target[i] = None
    BY <2>1 DEF Init, Direct, Slot
  <2>3. Books
    BY <2>1, <2>2 DEF Init, Books, Targets
  <2>4. Phase(c)
    BY <2>1, <2>2, BrokersAssumption DEF Init, Phase, Early, Late, Runs, Spent, BrokerOf
  <2>5. ASSUME NEW q \in Readers PROVE Reading(q, c)
    BY DEF Init, Reading, NoStats
  <2>6. TypeOK
    BY InitTyped
  <2> QED BY <2>3, <2>4, <2>5, <2>6
<1>2. IInv /\ OneAtATime /\ OneAtATime' /\ TypeOK' /\ [Next]_vars => IInv'
  BY InvariantStep
<1>3. Spec /\ []OneAtATime => []IInv
  BY <1>1, <1>2, TypeCorrect, PTL DEF Spec
<1>4. ASSUME IInv, OneAtATime
      PROVE  \E c \in Requests : /\ Phase(c) /\ (Quiet => pc[c] = "idle")
                                 /\ \A q \in Readers : Reading(q, c)
  <2>1. PICK c \in Requests : Alone(c)
    BY <1>4, RequestsAssumption DEF OneAtATime, Alone
  <2> QED BY <1>4, <2>1 DEF IInv, Quiet
<1> QED BY <1>3, <1>4

\* Name and broker that a later request is compared with are those of the
\* active source (source_manager.py:128-131, 139-141).
THEOREM NamesAreItsOwn ==
  Spec /\ []OneAtATime => []NamesMatchSource
<1>1. IInv /\ OneAtATime => NamesMatchSource
  BY Invariant DEF Phase, NamesMatchSource
<1> QED BY <1>1, Invariant, PTL

\* Between switches every other source has ended or was given up by stop
\* (source_manager.py:138, plc.py:76-79).
THEOREM NoSourceLeftRunning ==
  Spec /\ []OneAtATime => []OnlyActiveSourceRuns
<1>1. IInv /\ OneAtATime => OnlyActiveSourceRuns
  BY Invariant DEF Phase, Early, Spent, OnlyActiveSourceRuns
<1> QED BY <1>1, Invariant, PTL

\* The reset at the end of a switch leaves no count of an earlier source but
\* those of a poller that was given up (source_manager.py:142).
THEOREM CountsAreOwn ==
  Spec /\ []OneAtATime => []NoForeignCounts
<1>1. IInv /\ OneAtATime => NoForeignCounts
  BY Invariant DEF Phase, Early, NoForeignCounts
<1> QED BY <1>1, Invariant, PTL

\* An answer of /api/stats that no switch overlaps belongs to the connection
\* it names, but for late events of a poller whose join timed out, for any
\* number of readers (main.py:232-241, plc.py:79).
THEOREM QuietAnswersMatch ==
  Spec /\ []OneAtATime => []QuietStatsMatch
<1>1. IInv /\ OneAtATime => QuietStatsMatch
  BY Invariant DEF Reading, QuietStatsMatch
<1> QED BY <1>1, Invariant, PTL
=============================================================================
