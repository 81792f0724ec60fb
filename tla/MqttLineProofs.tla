--------------------------- MODULE MqttLineProofs ---------------------------
(***************************************************************************)
(* Proofs about MqttLine, for every set of tags, staleness limit, polling  *)
(* period and reconnect delay above the limit: the source needs no second  *)
(* baseline flag, as silence tells one session from the next.              *)
(***************************************************************************)
EXTENDS MqttLine, SequenceTheorems, TLAPS

\* A session that is up and has received nothing began after more silence
\* than the limit; while the source is down, the silence there is and the
\* waiting to come add up to that much.
SilenceCovers ==
  /\ flag => session = "up"
  /\ session /= "up" => wire = << >>
  /\ session = "down" => silence + wait > Staleness
  /\ session = "up" /\ ~heard => silence > Staleness

IInv == TypeOK /\ SilenceCovers
-----------------------------------------------------------------------------
\* Taking a message off the wire leaves a wire.
LEMMA WireHead ==
  ASSUME wire \in Seq(Payloads), wire /= << >>
  PROVE  Head(wire) \in Payloads /\ Tail(wire) \in Seq(Payloads)
BY HeadTailProperties

LEMMA SendType ==
  ASSUME wire \in Seq(Payloads), NEW m \in Payloads, Send(m)
  PROVE  wire' \in Seq(Payloads) /\ session = "up"
BY AppendProperties DEF Send

\* Every reachable state of the source and its environment is well typed
\* (mqtt_source.py:32-107).
THEOREM TypeCorrect == Spec => []TypeOK
<1>1. Init => TypeOK
  <2> SUFFICES ASSUME Init PROVE TypeOK
    OBVIOUS
  <2>1. wire \in Seq(Payloads)
    BY EmptySeq, Zenon DEF Init
  <2>2. due \in 0..Period /\ wait \in Nat /\ silence \in 0..(Staleness + 1)
    BY StalenessAssumption, PeriodAssumption DEF Init
  <2>3. counted \in [Tags -> Nat] /\ rises \in [Tags -> Nat]
    BY DEF Init
  <2> QED BY <2>1, <2>2, <2>3, Zenon DEF Init, TypeOK
<1>2. TypeOK /\ [Next]_vars => TypeOK'
  <2> SUFFICES ASSUME TypeOK, [Next]_vars PROVE TypeOK'
    OBVIOUS
  <2> USE DEF TypeOK
  <2>1. ASSUME NEW t \in Tags, TagRises(t) PROVE TypeOK'
    BY <2>1 DEF TagRises, worldVars, sourceVars
  <2>2. ASSUME NEW t \in Tags, TagFalls(t) PROVE TypeOK'
    BY <2>2 DEF TagFalls, worldVars, sourceVars
  <2>3. CASE LineChanges \/ CalmDown
    BY <2>3 DEF LineChanges, CalmDown, plcVars, sourceVars
  <2>4. CASE MalformedArrives
    BY <2>4, SendType, ChatterAssumption DEF MalformedArrives, plcVars, worldVars, sourceVars
  <2>5. CASE Tick
    BY <2>5, StalenessAssumption, PeriodAssumption
    DEF Tick, Less, plcVars, worldVars, sourceVars
  <2>6. CASE Publish
    <3>1. Encode(plc) \in Payloads
      BY DEF Encode, Payloads
    <3> QED BY <2>6, <3>1, SendType, PeriodAssumption
            DEF Publish, plcVars, worldVars, sourceVars
  <2>7. CASE PublishLost \/ PublishFails
    BY <2>7, PeriodAssumption
    DEF PublishLost, PublishFails, plcVars, worldVars, sourceVars
  <2>8. CASE OnConnect
    BY <2>8 DEF OnConnect, plcVars, worldVars
  <2>9. CASE ConnectFails
    BY <2>9, DelaysAssumption DEF ConnectFails, plcVars, worldVars, sourceVars
  <2>10. CASE OnDisconnect
    BY <2>10, DelaysAssumption, EmptySeq DEF OnDisconnect, plcVars, worldVars
  <2>11. CASE Discard
    BY <2>11, WireHead DEF Discard, plcVars, worldVars, sourceVars
  <2>12. CASE OnMessage
    <3>0. wire \in Seq(Payloads) /\ wire /= << >> /\ Parse(Head(wire)) /= None
      BY <2>12 DEF OnMessage
    <3>1. Parse(Head(wire)) \in SUBSET Tags /\ Tail(wire) \in Seq(Payloads)
      BY <3>0, WireHead DEF Parse, Payloads
    <3>2. pending' \in SUBSET Tags
      BY <2>12, <3>1 DEF OnMessage, Events
    <3>3. silence' \in 0..(Staleness + 1)
      BY <2>12, StalenessAssumption DEF OnMessage
    <3>4. wire' \in Seq(Payloads) /\ raw' \in SUBSET Tags
      BY <2>12, <3>1 DEF OnMessage
    <3> QED BY <2>12, <3>2, <3>3, <3>4, Zenon DEF OnMessage, plcVars, worldVars
  <2>13. ASSUME NEW t \in Tags, Emit(t) PROVE TypeOK'
    BY <2>13 DEF Emit, plcVars, worldVars
  <2>14. CASE Stop
    BY <2>14, EmptySeq DEF Stop, plcVars, worldVars
  <2>15. CASE UNCHANGED vars
    BY <2>15 DEF vars, plcVars, worldVars, sourceVars
  <2> QED BY <2>1, <2>2, <2>3, <2>4, <2>5, <2>6, <2>7, <2>8, <2>9, <2>10, <2>11,
             <2>12, <2>13, <2>14, <2>15 DEF Next, Publisher, Callback
<1> QED BY <1>1, <1>2, PTL DEF Spec

-----------------------------------------------------------------------------
LEMMA CoversInit == Init => SilenceCovers
BY StalenessAssumption DEF Init, SilenceCovers

LEMMA CoversStep ==
  ASSUME TypeOK, SilenceCovers, [Next]_vars PROVE SilenceCovers'
<1> USE DEF SilenceCovers
<1>0. /\ Staleness \in Nat /\ silence \in Nat /\ wait \in Nat
      /\ \A d \in Delays : d \in Nat /\ d > Staleness
  BY StalenessAssumption, DelaysAssumption DEF TypeOK
<1>1. ASSUME NEW t \in Tags, TagRises(t) \/ TagFalls(t) PROVE SilenceCovers'
  BY <1>1 DEF TagRises, TagFalls, sourceVars
<1>2. CASE LineChanges \/ CalmDown
  BY <1>2 DEF LineChanges, CalmDown, sourceVars
<1>3. CASE MalformedArrives \/ Publish
  BY <1>3 DEF MalformedArrives, Publish, Send, sourceVars
<1>4. CASE Tick
  BY <1>4, <1>0 DEF Tick, Less, sourceVars
<1>5. CASE PublishLost \/ PublishFails
  BY <1>5 DEF PublishLost, PublishFails, sourceVars
<1>6. CASE OnConnect
  BY <1>6, <1>0 DEF OnConnect
<1>7. CASE ConnectFails
  BY <1>7, <1>0 DEF ConnectFails, sourceVars
<1>8. CASE OnDisconnect
  BY <1>8, <1>0 DEF OnDisconnect
<1>9. CASE Discard
  BY <1>9 DEF Discard, sourceVars
<1>10. CASE OnMessage
  BY <1>10 DEF OnMessage
<1>11. ASSUME NEW t \in Tags, Emit(t) PROVE SilenceCovers'
  BY <1>11 DEF Emit
<1>12. CASE Stop
  BY <1>12 DEF Stop
<1>13. CASE UNCHANGED vars
  BY <1>13 DEF vars, sourceVars
<1> QED BY <1>1, <1>2, <1>3, <1>4, <1>5, <1>6, <1>7, <1>8, <1>9, <1>10, <1>11, <1>12,
           <1>13 DEF Next, Publisher, Callback

\* The first image of every session yields no events (mqtt_source.py:92).
THEOREM EverySessionBeginsAtBaseline == Spec => BaselineAfterReconnect
<1>1. TypeOK /\ SilenceCovers /\ [Next]_vars
        => (pending' /= {} /\ pending = {} => heard)
  <2> SUFFICES ASSUME TypeOK, SilenceCovers, [Next]_vars, ~heard,
                      pending = {}, pending' /= {}
               PROVE  FALSE
    OBVIOUS
  <2>1. OnMessage
    BY DEF Next, Publisher, Callback, TagRises, TagFalls, LineChanges, CalmDown,
           MalformedArrives, Tick, Publish, PublishLost, PublishFails, OnConnect,
           ConnectFails, OnDisconnect, Discard, Emit, Stop, vars, sourceVars
  <2>2. session = "up" /\ silence > Staleness
    BY <2>1 DEF OnMessage, SilenceCovers, TypeOK
  <2> QED BY <2>1, <2>2 DEF OnMessage, Gap, IsStale
<1>2. TypeOK /\ SilenceCovers /\ [Next]_vars => SilenceCovers'
  BY CoversStep
<1> QED BY <1>1, <1>2, TypeCorrect, CoversInit, PTL DEF Spec, BaselineAfterReconnect

\* What is shown as live was received over this session (mqtt_source.py:124-137).
THEOREM LiveIsFresh == Spec => []LiveIsOfThisSession
<1>1. TypeOK /\ SilenceCovers => LiveIsOfThisSession
  BY StalenessAssumption
  DEF TypeOK, SilenceCovers, LiveIsOfThisSession, Live, Snapshot, IsStale
<1>2. TypeOK /\ SilenceCovers /\ [Next]_vars => SilenceCovers'
  BY CoversStep
<1> QED BY <1>1, <1>2, TypeCorrect, CoversInit, PTL DEF Spec
-----------------------------------------------------------------------------
(* NoPhantom: every image is dated with the rises its tag had when the      *)
(* publisher read it.                                                       *)

\* An image S read after m rises of t may come before T, read after n.
Before(t, S, m, T, n) == m <= n /\ (S /= None /\ t \notin S /\ t \in T => m < n)

Owed(t) == IF t \in pending THEN 1 ELSE 0

\* The places on the wire that hold an image.
Images == {i \in 1..Len(wire) : Parse(wire[i]) /= None}

\* The last image received dates from base, the one at place i from when[i]:
\* they are in order, and what was counted of t is older.
Dated(t, base, when) ==
  /\ counted[t] + Owed(t) <= base
  /\ Before(t, raw, base, plc, rises[t])
  /\ \A i \in Images :
       /\ Before(t, raw, base, Parse(wire[i]), when[i])
       /\ Before(t, Parse(wire[i]), when[i], plc, rises[t])
       /\ \A j \in Images : j > i =>
            Before(t, Parse(wire[i]), when[i], Parse(wire[j]), when[j])

Paid(t) == \E base \in Nat, when \in [Nat -> Nat] : Dated(t, base, when)

AllPaid == \A t \in Tags : Paid(t)

Received == raw = None => baseline

\* Nothing is dated anew when nothing the dates are about changes.
LEMMA StillDated ==
  ASSUME NEW t \in Tags, NEW base \in Nat, NEW when \in [Nat -> Nat],
         Dated(t, base, when), UNCHANGED <<plc, rises, raw, counted, pending>>,
         wire' = wire \/ wire' = << >>
  PROVE  Dated(t, base, when)'
<1>1. CASE wire' = wire
  BY <1>1 DEF Dated, Owed, Images, Before
<1>2. CASE wire' = << >>
  <2>1. Images' = {}
    BY <1>2 DEF Images
  <2> QED BY <2>1 DEF Dated, Owed, Before
<1> QED BY <1>1, <1>2

\* A message enters the wire: an image is dated with the rises there are.
LEMMA SentIsDated ==
  ASSUME TypeOK, NEW t \in Tags, NEW base \in Nat, NEW when \in [Nat -> Nat],
         Dated(t, base, when), UNCHANGED <<plc, rises, raw, counted, pending>>,
         NEW m \in Payloads, Send(m), Parse(m) = None \/ Parse(m) = plc,
         NEW dates \in [Nat -> Nat],
         dates = [when EXCEPT ![Len(wire) + 1] = rises[t]]
  PROVE  Dated(t, base, dates)'
<1> DEFINE n == Len(wire)
           last == n + 1
<1>0. /\ n \in Nat /\ rises[t] \in Nat
      /\ wire \in Seq(Payloads) /\ wire' = Append(wire, m)
  BY LenProperties DEF TypeOK, Send
<1>1. n \in Nat /\ last \in Nat /\ rises[t] \in Nat
  BY <1>0
<1>2. /\ Len(wire') = last /\ wire'[last] = m
      /\ \A i \in 1..n : wire'[i] = wire[i]
  BY <1>0, AppendProperties
<1>3. dates = [when EXCEPT ![last] = rises[t]]
  OBVIOUS
<1>4. Images = {i \in 1..n : Parse(wire[i]) /= None}
      /\ Images' = {i \in 1..last : Parse(wire'[i]) /= None}
  BY <1>2 DEF Images
<1> HIDE DEF n
<1>5. ASSUME NEW i \in Images
      PROVE  i \in Nat /\ i < last /\ wire'[i] = wire[i] /\ dates[i] = when[i]
  <2>1. i \in 1..n
    BY <1>4
  <2>2. i \in Nat /\ i < last
    BY <1>1, <2>1
  <2>3. wire'[i] = wire[i]
    BY <1>2, <2>1
  <2>4. i /= last
    BY <1>1, <2>2
  <2>5. dates[i] = when[i]
    BY <1>3, <2>2, <2>4
  <2> QED BY <2>2, <2>3, <2>5
<1>6. ASSUME NEW i \in Images' PROVE i \in Images \/ (i = last /\ Parse(wire'[i]) = plc)
  <2>1. i \in 1..last /\ Parse(wire'[i]) /= None
    BY <1>4
  <2>2. i \in 1..n \/ i = last
    BY <1>1, <2>1
  <2>3. CASE i = last
    BY <1>2, <2>1, <2>3
  <2>4. CASE i \in 1..n
    BY <1>2, <1>4, <2>1, <2>4
  <2> QED BY <2>2, <2>3, <2>4
<1>7. dates[last] = rises[t]
  BY <1>1, <1>3
<1> HIDE DEF last
<1>8. ASSUME NEW i \in Images'
      PROVE  /\ Before(t, raw, base, Parse(wire'[i]), dates[i])
             /\ Before(t, Parse(wire'[i]), dates[i], plc, rises[t])
  <2>1. CASE i \in Images
    BY <1>5, <2>1 DEF Dated
  <2>2. CASE i = last /\ Parse(wire'[i]) = plc
    <3>1. Before(t, raw, base, plc, rises[t])
      BY DEF Dated
    <3>2. Before(t, plc, rises[t], plc, rises[t])
      BY <1>1 DEF Before
    <3> QED BY <1>7, <2>2, <3>1, <3>2
  <2> QED BY <1>6, <2>1, <2>2
<1>9. ASSUME NEW i \in Images', NEW j \in Images', j > i
      PROVE  Before(t, Parse(wire'[i]), dates[i], Parse(wire'[j]), dates[j])
  <2>1. i \in Images
    <3>1. ASSUME i = last PROVE FALSE
      <4>1. j \in Images => j \in Nat /\ j < last
        BY <1>5
      <4>2. j \in Images \/ j = last
        BY <1>6
      <4>3. j \in Nat /\ j <= last
        <5>1. CASE j \in Images
          BY <1>1, <4>1, <5>1
        <5>2. CASE j = last
          BY <1>1, <5>2
        <5> QED BY <4>2, <5>1, <5>2
      <4>4. j > last
        BY <1>9, <3>1
      <4> QED BY <1>1, <4>3, <4>4
    <3> QED BY <1>6, <3>1
  <2>2. CASE j \in Images
    BY <1>5, <1>9, <2>1, <2>2 DEF Dated
  <2>3. CASE j = last /\ Parse(wire'[j]) = plc
    BY <1>5, <1>7, <2>1, <2>3 DEF Dated
  <2> QED BY <1>6, <2>2, <2>3
<1>10. counted'[t] + Owed(t)' <= base /\ Before(t, raw', base, plc', rises'[t])
  BY DEF Dated, Owed
<1>11. plc' = plc /\ rises' = rises /\ raw' = raw
  OBVIOUS
<1> QED BY <1>8, <1>9, <1>10, <1>11 DEF Dated

\* The wire loses its head: the dates move up.
LEMMA TailIsDated ==
  ASSUME TypeOK, NEW t \in Tags, NEW when \in [Nat -> Nat],
         wire /= << >>, wire' = Tail(wire)
  PROVE  /\ [i \in Nat |-> when[i + 1]] \in [Nat -> Nat]
         /\ \A i \in Images' : /\ i \in Nat /\ i + 1 \in Images /\ i + 1 > 1
                               /\ wire'[i] = wire[i + 1]
<1>1. /\ wire \in Seq(Payloads) /\ Len(wire) \in Nat /\ Len(wire') = Len(wire) - 1
      /\ \A i \in 1..Len(wire') : wire'[i] = wire[i + 1]
  BY HeadTailProperties, LenProperties DEF TypeOK
<1> QED BY <1>1 DEF Images

LEMMA ReceivedStep == ASSUME TypeOK, Received, [Next]_vars PROVE Received'
<1>1. CASE OnMessage
  BY <1>1 DEF OnMessage, Received
<1>2. CASE ~OnMessage
  <2>1. UNCHANGED <<raw, baseline>>
    BY <1>2 DEF Next, Publisher, Callback, TagRises, TagFalls, LineChanges, CalmDown,
                MalformedArrives, Tick, Publish, PublishLost, PublishFails, OnConnect,
                ConnectFails, OnDisconnect, Discard, Emit, Stop, vars, sourceVars
  <2> QED BY <2>1 DEF Received
<1> QED BY <1>1, <1>2

LEMMA PaidStep ==
  ASSUME TypeOK, Received, [Next]_vars, NEW t \in Tags, Paid(t) PROVE Paid(t)'
<1>1. PICK base \in Nat, when \in [Nat -> Nat] : Dated(t, base, when)
  BY DEF Paid
<1> SUFFICES \E b \in Nat, w \in [Nat -> Nat] : Dated(t, b, w)'
  BY DEF Paid
<1>2. counted[t] \in Nat /\ rises[t] \in Nat /\ Owed(t) \in 0..1
      /\ rises \in [Tags -> Nat] /\ counted \in [Tags -> Nat]
  <2>1. rises \in [Tags -> Nat] /\ counted \in [Tags -> Nat]
    BY DEF TypeOK
  <2> QED BY <2>1 DEF Owed
<1>3. ASSUME NEW u \in Tags, TagRises(u) PROVE Dated(t, base, when)'
  <2>1. /\ UNCHANGED <<raw, counted, pending, wire>> /\ plc' = plc \cup {u}
        /\ rises' = [rises EXCEPT ![u] = @ + 1]
    BY <1>3 DEF TagRises, sourceVars
  <2>2. \/ rises'[t] = rises[t] /\ (t \in plc' => t \in plc)
        \/ rises'[t] = rises[t] + 1
    BY <1>2, <2>1
  <2>3. ASSUME NEW S, NEW k \in Nat, Before(t, S, k, plc, rises[t])
        PROVE  Before(t, S, k, plc', rises'[t])
    BY <1>2, <2>2, <2>3 DEF Before
  <2>4. Images' = Images /\ Owed(t)' = Owed(t)
    BY <2>1 DEF Images, Owed
  <2>5. \A i \in Images : when[i] \in Nat
    BY DEF Images
  <2> QED BY <1>1, <2>1, <2>3, <2>4, <2>5 DEF Dated
<1>4. ASSUME NEW u \in Tags, TagFalls(u) PROVE Dated(t, base, when)'
  <2>1. UNCHANGED <<raw, counted, pending, wire, rises>> /\ plc' = plc \ {u}
    BY <1>4 DEF TagFalls, sourceVars
  <2>2. ASSUME NEW S, NEW k \in Nat, Before(t, S, k, plc, rises[t])
        PROVE  Before(t, S, k, plc', rises'[t])
    BY <2>1, <2>2 DEF Before
  <2>3. Images' = Images /\ Owed(t)' = Owed(t)
    BY <2>1 DEF Images, Owed
  <2>4. \A i \in Images : when[i] \in Nat
    BY DEF Images
  <2> QED BY <1>1, <2>1, <2>2, <2>3, <2>4 DEF Dated
<1>5. CASE MalformedArrives \/ Publish
  <2>1. PICK m \in Payloads : Send(m) /\ (Parse(m) = None \/ Parse(m) = plc)
    <3>1. CASE MalformedArrives
      BY <3>1, ChatterAssumption DEF MalformedArrives, Parse
    <3>2. CASE Publish
      <4>1. Encode(plc) \in Payloads
        BY DEF Encode, Payloads, TypeOK
      <4>2. Parse(Encode(plc)) = plc
        BY DEF Encode, Parse
      <4> QED BY <3>2, <4>1, <4>2 DEF Publish
    <3> QED BY <1>5, <3>1, <3>2
  <2>2. UNCHANGED <<plc, rises, raw, counted, pending>>
    BY <1>5 DEF MalformedArrives, Publish, plcVars, sourceVars
  <2> DEFINE dates == [when EXCEPT ![Len(wire) + 1] = rises[t]]
  <2>3. dates \in [Nat -> Nat]
    BY <1>2
  <2> QED BY <1>1, <2>1, <2>2, <2>3, SentIsDated
<1>6. CASE LineChanges \/ CalmDown \/ Tick \/ PublishLost \/ PublishFails \/ OnConnect
           \/ ConnectFails \/ UNCHANGED vars
  <2>1. UNCHANGED <<plc, rises, raw, counted, pending, wire>>
    BY <1>6 DEF LineChanges, CalmDown, Tick, PublishLost, PublishFails, OnConnect,
                ConnectFails, vars, plcVars, sourceVars
  <2> QED BY <1>1, <2>1, StillDated
<1>7. CASE OnDisconnect \/ Stop
  <2>1. UNCHANGED <<plc, rises, raw, counted, pending>> /\ wire' = << >>
    BY <1>7 DEF OnDisconnect, Stop, plcVars
  <2> QED BY <1>1, <2>1, StillDated
<1>8. CASE Discard
  <2> DEFINE dates == [i \in Nat |-> when[i + 1]]
  <2>1. /\ UNCHANGED <<plc, rises, raw, counted, pending>>
        /\ wire /= << >> /\ wire' = Tail(wire)
    BY <1>8 DEF Discard, plcVars, sourceVars
  <2>2. /\ dates \in [Nat -> Nat]
        /\ \A i \in Images' : /\ i \in Nat /\ i + 1 \in Images /\ i + 1 > 1
                              /\ wire'[i] = wire[i + 1]
    BY <2>1, TailIsDated
  <2>3. \A i \in Images' : dates[i] = when[i + 1]
    BY <2>2
  <2> HIDE DEF dates
  <2>4. \A i \in Images' :
          /\ Before(t, raw, base, Parse(wire'[i]), dates[i])
          /\ Before(t, Parse(wire'[i]), dates[i], plc, rises[t])
    BY <1>1, <2>2, <2>3 DEF Dated
  <2>5. ASSUME NEW i \in Images', NEW j \in Images', j > i
        PROVE  Before(t, Parse(wire'[i]), dates[i], Parse(wire'[j]), dates[j])
    <3>1. j + 1 > i + 1
      BY <2>2, <2>5
    <3> QED BY <1>1, <2>2, <2>3, <3>1 DEF Dated
  <2>6. counted'[t] + Owed(t)' <= base /\ Before(t, raw, base, plc, rises[t])
    BY <1>1, <2>1 DEF Dated, Owed
  <2>7. Dated(t, base, dates)'
    BY <2>1, <2>4, <2>5, <2>6 DEF Dated
  <2> QED BY <2>2, <2>7
<1>9. CASE OnMessage
  <2> DEFINE image == Parse(Head(wire))
             dates == [i \in Nat |-> when[i + 1]]
  <2>1. /\ UNCHANGED <<plc, rises, counted>> /\ raw' = image /\ image /= None
        /\ wire /= << >> /\ wire' = Tail(wire)
        /\ pending = {} /\ pending' = IF Gap THEN {} ELSE Events(raw, image)
    BY <1>9 DEF OnMessage, plcVars
  <2>2. /\ dates \in [Nat -> Nat]
        /\ \A i \in Images' : /\ i \in Nat /\ i + 1 \in Images /\ i + 1 > 1
                              /\ wire'[i] = wire[i + 1]
    BY <2>1, TailIsDated
  <2>3. \A i \in Images' : dates[i] = when[i + 1]
    BY <2>2
  <2>4. 1 \in Images /\ Parse(wire[1]) = image /\ when[1] \in Nat
    <3>1. Len(wire) \in Nat \ {0} /\ Head(wire) = wire[1]
      BY <2>1, EmptySeq DEF TypeOK
    <3> QED BY <2>1, <3>1 DEF Images
  <2> HIDE DEF dates, image
  <2>5. counted'[t] + Owed(t)' <= when[1]
    <3>1. Before(t, raw, base, image, when[1]) /\ counted[t] <= base
      BY <1>1, <1>2, <2>4 DEF Dated
    <3>2. CASE t \in pending'
      <4>1. raw /= None /\ t \notin raw /\ t \in image
        BY <2>1, <3>2 DEF Received, Gap, Events
      <4>2. base < when[1] /\ Owed(t)' = 1
        BY <3>1, <3>2, <4>1 DEF Before, Owed
      <4> QED BY <1>2, <2>1, <2>4, <3>1, <4>2
    <3>3. CASE t \notin pending'
      BY <1>2, <2>1, <2>4, <3>1, <3>3 DEF Before, Owed
    <3> QED BY <3>2, <3>3
  <2>6. Before(t, image, when[1], plc, rises[t])
    BY <1>1, <2>4 DEF Dated
  <2>7. \A i \in Images' :
          /\ Before(t, image, when[1], Parse(wire'[i]), dates[i])
          /\ Before(t, Parse(wire'[i]), dates[i], plc, rises[t])
    BY <1>1, <2>2, <2>3, <2>4 DEF Dated
  <2>8. ASSUME NEW i \in Images', NEW j \in Images', j > i
        PROVE  Before(t, Parse(wire'[i]), dates[i], Parse(wire'[j]), dates[j])
    <3>1. j + 1 > i + 1
      BY <2>2, <2>8
    <3> QED BY <1>1, <2>2, <2>3, <3>1 DEF Dated
  <2> DEFINE first == when[1]
  <2>9. Dated(t, first, dates)'
    BY <2>1, <2>5, <2>6, <2>7, <2>8 DEF Dated
  <2> QED BY <2>2, <2>4, <2>9
<1>10. ASSUME NEW u \in Tags, Emit(u) PROVE Dated(t, base, when)'
  <2>1. /\ UNCHANGED <<plc, rises, raw, wire>>
        /\ u \in pending /\ pending' = pending \ {u}
        /\ counted' = [counted EXCEPT ![u] = @ + 1]
    BY <1>10 DEF Emit, plcVars
  <2>2. counted'[t] + Owed(t)' = counted[t] + Owed(t)
    BY <1>2, <2>1 DEF Owed
  <2>3. Images' = Images
    BY <2>1 DEF Images
  <2> QED BY <1>1, <2>1, <2>2, <2>3 DEF Dated
<1> QED BY <1>1, <1>3, <1>4, <1>5, <1>6, <1>7, <1>8, <1>9, <1>10 DEF Next, Publisher, Callback

LEMMA Accounts == Spec => []AllPaid
<1>1. Init => Received /\ AllPaid
  <2> SUFFICES ASSUME Init PROVE Received /\ AllPaid
    OBVIOUS
  <2> DEFINE dates == [i \in Nat |-> 0]
  <2>1. dates \in [Nat -> Nat] /\ Images = {} /\ Received
    BY DEF Init, Images, Received
  <2>2. ASSUME NEW t \in Tags PROVE Dated(t, 0, dates)
    BY <2>1 DEF Init, Dated, Owed, Before
  <2> QED BY <2>1, <2>2 DEF AllPaid, Paid
<1>2. TypeOK /\ Received /\ AllPaid /\ [Next]_vars => Received' /\ AllPaid'
  BY ReceivedStep, PaidStep DEF AllPaid
<1> QED BY <1>1, <1>2, TypeCorrect, PTL DEF Spec

\* What was counted of a tag and what is about to be is covered by its rises.
LEMMA Covered ==
  ASSUME TypeOK, AllPaid, NEW t \in Tags
  PROVE  /\ counted[t] \in Nat /\ rises[t] \in Nat /\ Owed(t) \in 0 .. 1
         /\ counted[t] + Owed(t) <= rises[t]
<1>1. PICK base \in Nat, when \in [Nat -> Nat] : Dated(t, base, when)
  BY DEF AllPaid, Paid
<1>2. counted[t] \in Nat /\ rises[t] \in Nat /\ Owed(t) \in 0 .. 1
  BY DEF TypeOK, Owed
<1>3. counted[t] + Owed(t) <= base /\ base <= rises[t]
  BY <1>1 DEF Dated, Before
<1> QED BY <1>2, <1>3

\* Every event stands for a rising edge of its own, however many images and
\* malformed messages are on the wire and wherever it breaks
\* (mqtt_source.py:86-105; mqtt_proto.py:20-34).
THEOREM EveryEventIsAnEdge == Spec => []NoPhantom
<1>1. TypeOK /\ AllPaid => NoPhantom
  <2> SUFFICES ASSUME TypeOK, AllPaid, NEW t \in Tags PROVE counted[t] <= rises[t]
    BY DEF NoPhantom
  <2> QED BY Covered
<1> QED BY <1>1, Accounts, TypeCorrect, PTL
-----------------------------------------------------------------------------
\* Events wait only while the source is up: a callback that has begun holds
\* off on_disconnect and the join of stop.
Attached ==
  /\ session /= "up" => wire = << >>
  /\ pending /= {} => session = "up"

LEMMA AttachedStep == ASSUME TypeOK, Attached, [Next]_vars PROVE Attached'
<1> USE DEF Attached
<1>1. CASE OnConnect \/ OnDisconnect \/ Stop \/ MalformedArrives \/ Publish
  BY <1>1 DEF OnConnect, OnDisconnect, Stop, MalformedArrives, Publish, Send, sourceVars
<1>2. CASE OnMessage
  BY <1>2 DEF OnMessage
<1>3. CASE Discard \/ \E t \in Tags : Emit(t)
  BY <1>3 DEF Discard, Emit, sourceVars
<1>4. CASE \/ \E t \in Tags : TagRises(t) \/ TagFalls(t)
           \/ LineChanges \/ CalmDown \/ Tick \/ PublishLost \/ PublishFails
           \/ ConnectFails \/ UNCHANGED vars
  BY <1>4 DEF TagRises, TagFalls, LineChanges, CalmDown, Tick, PublishLost, PublishFails,
              ConnectFails, vars, sourceVars
<1> QED BY <1>1, <1>2, <1>3, <1>4 DEF Next, Publisher, Callback

\* Every step of the subscriber, the publisher and the line is a step of a
\* line source, or a stutter.
LEMMA StepRefines ==
  ASSUME TypeOK, AllPaid, Attached, [Next]_vars
  PROVE  [Source!LineNext]_Source!lineVars
<1> USE DEF Source!lineVars
<1>1. CASE OnMessage
  <2>1. session = "up" /\ session' = session /\ pending = {} /\ UNCHANGED <<rises, counted>>
    BY <1>1 DEF OnMessage, Attached, plcVars
  <2>2. CASE pending' = {}
    BY <2>1, <2>2
  <2>3. CASE pending' /= {}
    <3>1. Source!Begin
      BY <2>1, <2>3 DEF Source!Begin
    <3> QED BY <3>1 DEF Source!LineNext
  <2> QED BY <2>2, <2>3
<1>2. ASSUME NEW t \in Tags, Emit(t) PROVE Source!LineNext
  <2>1. Owed(t) = 1
    BY <1>2 DEF Emit, Owed
  <2>2. counted[t] < rises[t]
    BY <2>1, Covered
  <2>3. Source!Report(t)
    BY <1>2, <2>2 DEF Emit, Attached, Source!Report, plcVars
  <2> QED BY <2>3 DEF Source!LineNext
<1>3. CASE Stop
  <2>1. Source!End
    BY <1>3 DEF Stop, Source!End, plcVars
  <2> QED BY <2>1 DEF Source!LineNext
<1>4. ASSUME NEW t \in Tags, TagRises(t) PROVE Source!LineNext
  <2>1. Source!Rise(t)
    BY <1>4 DEF TagRises, Source!Rise, sourceVars
  <2> QED BY <2>1 DEF Source!LineNext
<1>5. CASE OnConnect \/ ConnectFails \/ OnDisconnect \/ Discard
  BY <1>5 DEF OnConnect, ConnectFails, OnDisconnect, Discard, plcVars, sourceVars
<1>6. CASE \/ \E t \in Tags : TagFalls(t)
           \/ LineChanges \/ CalmDown \/ MalformedArrives \/ Tick
           \/ Publish \/ PublishLost \/ PublishFails \/ UNCHANGED vars
  BY <1>6 DEF TagFalls, LineChanges, CalmDown, MalformedArrives, Tick, Publish,
              PublishLost, PublishFails, vars, plcVars, sourceVars
<1> QED BY <1>1, <1>2, <1>3, <1>4, <1>5, <1>6 DEF Next, Publisher, Callback

\* The subscriber implements a line source, for any broker, line and number
\* of messages under way (mqtt_source.py:65-70, 78-105).
THEOREM SubscriberIsALineSource == Spec => ImplementsLineSource
<1>1. Init => Source!LineInit /\ Attached
  BY DEF Init, Source!LineInit, Attached
<1>2. TypeOK /\ Attached /\ [Next]_vars => Attached'
  BY AttachedStep
<1>3. TypeOK /\ AllPaid /\ Attached /\ [Next]_vars => [Source!LineNext]_Source!lineVars
  BY StepRefines
<1> QED BY <1>1, <1>2, <1>3, Accounts, TypeCorrect, PTL
        DEF Spec, ImplementsLineSource, Source!LineSpec
=============================================================================
