------------------------------ MODULE MqttLine ------------------------------
(***************************************************************************)
(* app/mqtt_source.py, the dashboard's subscriber, with app/publisher.py   *)
(* on the line PC and a broker between them.                               *)
(*                                                                         *)
(* paho calls the callbacks one after the other on its own thread, so a    *)
(* callback is a step, but for on_event, called after the lock is given    *)
(* back.  Images travel in order and at most once (QoS 0): one that finds  *)
(* no subscriber is lost, and a stalled connection delivers late and in a  *)
(* burst.  Time is counted in ticks, as far as staleness can tell.         *)
(***************************************************************************)
EXTENDS Integers, Sequences

CONSTANTS Tags,        \* the tags of EVENT_EDGES
          Staleness,   \* staleness_ms, in ticks
          Period,      \* ticks from one poll of the publisher to the next
          Delays,      \* ticks from on_disconnect to the next on_connect
          MaxRises,    \* bound: tag |-> its rising edges in a behaviour
          MaxWire,     \* bound: messages under way
          Chatter,     \* the payloads other clients publish on the topic
          None         \* Python's None

ASSUME StalenessAssumption == Staleness \in Nat \ {0}
ASSUME PeriodAssumption == Period \in Nat \ {0}
\* paho waits at least 1 s before it connects again, and connecting takes
\* time too, so more than staleness_ms (1000) has passed.
ASSUME DelaysAssumption == Delays \subseteq Nat /\ \A d \in Delays : d > Staleness
ASSUME NoneAssumption == \A S \in SUBSET Tags : None /= S

\* A payload: the labels that carry a boolean, and those that carry TRUE.
\* What is no JSON object has no labels.
Payloads == [labels : SUBSET Tags, on : SUBSET Tags]

\* encode_payload: every label is written.
Encode(image) == [labels |-> Tags, on |-> image]

\* Mutant: a label that is missing reads as FALSE.
ParseMissing(m) == m.on

\* parse_payload, with None for its ValueError.
Parse(m) == IF m.labels = Tags THEN m.on ELSE None

ASSUME ChatterAssumption == Chatter \subseteq {m \in Payloads : m.labels /= Tags}

VARIABLES plc,        \* environment: the tags that are TRUE in the PLC
          line,       \* environment: the publisher reads its PLC
          calm,       \* environment: nothing fails or is delayed any more
          due,        \* ticks until the publisher polls
          wire,       \* messages under way to the dashboard
          session,    \* the connection to the broker: "down", "up" or "stopped"
          wait,       \* ticks until paho connects again
          flag,       \* _broker_connected
          raw,        \* _raw and _previous_raw, always assigned together
          baseline,   \* _baseline
          silence,    \* ticks since _last_recv, counted to Staleness + 1
          pending,    \* events not yet passed to on_event
          counted,    \* history: on_event calls per tag
          rises,      \* history: rising edges of each tag in the PLC
          heard       \* history: an image was received in this session

plcVars == <<plc, rises>>
worldVars == <<line, calm>>
sourceVars == <<flag, raw, baseline, pending, counted, heard>>
vars == <<plcVars, worldVars, due, wire, session, wait, silence, sourceVars>>

Init ==
  /\ plc \in SUBSET Tags /\ rises = [t \in Tags |-> 0]
  /\ line \in BOOLEAN /\ calm = FALSE
  /\ due = 0 /\ wire = << >>
  /\ session = "down" /\ wait = 0
  /\ flag = FALSE /\ raw = None /\ baseline = TRUE
  /\ silence = Staleness + 1
  /\ pending = {} /\ counted = [t \in Tags |-> 0] /\ heard = FALSE

-----------------------------------------------------------------------------
(* The line, the network and time. *)

TagRises(t) ==
  /\ t \notin plc /\ rises[t] < MaxRises[t]
  /\ plc' = plc \cup {t}
  /\ rises' = [rises EXCEPT ![t] = @ + 1]
  /\ UNCHANGED <<worldVars, due, wire, session, wait, silence, sourceVars>>

TagFalls(t) ==
  /\ t \in plc
  /\ plc' = plc \ {t}
  /\ UNCHANGED <<rises, worldVars, due, wire, session, wait, silence, sourceVars>>

\* The publisher loses its PLC, or ends, or either is repaired.
LineChanges ==
  /\ ~calm
  /\ line' = ~line
  /\ UNCHANGED <<plcVars, calm, due, wire, session, wait, silence, sourceVars>>

\* From now on everything works and nothing waits.
CalmDown ==
  /\ ~calm
  /\ calm' = TRUE /\ line' = TRUE
  /\ UNCHANGED <<plcVars, due, wire, session, wait, silence, sourceVars>>

Send(message) ==
  /\ session = "up" /\ Len(wire) < MaxWire
  /\ wire' = Append(wire, message)

\* Any client of the broker may publish on the topic, without all its labels.
MalformedArrives ==
  /\ ~calm
  /\ \E m \in Chatter : Send(m)
  /\ UNCHANGED <<plcVars, worldVars, due, session, wait, silence, sourceVars>>

Less(n) == IF n > 0 THEN n - 1 ELSE 0

Tick ==
  /\ calm => wire = << >> /\ pending = {} /\ due > 0
             /\ (session = "down" => wait > 0)
  /\ due' = Less(due) /\ wait' = Less(wait)
  /\ silence' = IF silence > Staleness THEN silence ELSE silence + 1
  /\ UNCHANGED <<plcVars, worldVars, wire, session, sourceVars>>

-----------------------------------------------------------------------------
(* LinePublisher._run. *)

\* One iteration that reads and publishes.
Publish ==
  /\ due = 0 /\ line
  /\ Send(Encode(plc))
  /\ due' = Period
  /\ UNCHANGED <<plcVars, worldVars, session, wait, silence, sourceVars>>

\* One that publishes to no subscriber, or into a connection that breaks.
PublishLost ==
  /\ due = 0 /\ line /\ (calm => session /= "up")
  /\ due' = Period
  /\ UNCHANGED <<plcVars, worldVars, wire, session, wait, silence, sourceVars>>

\* One whose connect or read raises: it is logged and the reader closed.
PublishFails ==
  /\ due = 0 /\ ~line
  /\ due' = Period
  /\ UNCHANGED <<plcVars, worldVars, wire, session, wait, silence, sourceVars>>

-----------------------------------------------------------------------------
(* The callbacks of MqttLineSource. *)

\* Mutants: only the first image is a baseline test; the limit itself is
\* already stale.
StaleUntilFirst == raw = None
StaleAtLimit == silence >= Staleness

\* _is_stale_locked.
IsStale == silence > Staleness

\* Mutant: only the first image is a baseline.
GapFirst == baseline

Gap == baseline \/ IsStale

\* detect_events, with a previous image.  Mutant: an event that is None.
EventsNone(before, now) == IF before = now THEN {None} ELSE now \ before

Events(before, now) == now \ before

OnConnect ==
  /\ session = "down" /\ wait = 0
  /\ session' = "up" /\ flag' = TRUE /\ heard' = FALSE
  /\ UNCHANGED <<plcVars, worldVars, due, wire, wait, silence, raw, baseline,
                 pending, counted>>

\* No answer, or a CONNACK that refuses: paho waits and tries again.
ConnectFails ==
  /\ ~calm /\ session = "down" /\ wait = 0
  /\ wait' \in Delays
  /\ UNCHANGED <<plcVars, worldVars, due, wire, session, silence, sourceVars>>

OnDisconnect ==
  /\ ~calm /\ session = "up" /\ pending = {}
  /\ session' = "down" /\ flag' = FALSE /\ wire' = << >>
  /\ wait' \in Delays
  /\ UNCHANGED <<plcVars, worldVars, due, silence, raw, baseline, pending,
                 counted, heard>>

\* Mutant: any message is a sign of life.
DiscardAsLife ==
  /\ pending = {} /\ wire /= << >> /\ Parse(Head(wire)) = None
  /\ wire' = Tail(wire) /\ silence' = 0
  /\ UNCHANGED <<plcVars, worldVars, due, session, wait, sourceVars>>

\* _on_message of a payload that cannot be parsed.
Discard ==
  /\ pending = {} /\ wire /= << >> /\ Parse(Head(wire)) = None
  /\ wire' = Tail(wire)
  /\ UNCHANGED <<plcVars, worldVars, due, session, wait, silence, sourceVars>>

\* _on_message of an image, to the end of the lock.
OnMessage ==
  /\ pending = {} /\ wire /= << >> /\ Parse(Head(wire)) /= None
  /\ pending' = IF Gap THEN {} ELSE Events(raw, Parse(Head(wire)))
  /\ baseline' = FALSE /\ raw' = Parse(Head(wire)) /\ silence' = 0
  /\ wire' = Tail(wire)
  /\ heard' = TRUE
  /\ UNCHANGED <<plcVars, worldVars, due, session, wait, flag, counted>>

\* One on_event call.
Emit(t) ==
  /\ t \in pending
  /\ pending' = pending \ {t}
  /\ counted' = [counted EXCEPT ![t] = @ + 1]
  /\ UNCHANGED <<plcVars, worldVars, due, wire, session, wait, silence, flag, raw,
                 baseline, heard>>

\* Mutant: the thread is not waited for.
StopNoJoin ==
  /\ session /= "stopped"
  /\ session' = "stopped" /\ flag' = FALSE /\ wire' = << >>
  /\ UNCHANGED <<plcVars, worldVars, due, wait, silence, raw, baseline, pending,
                 counted, heard>>

\* stop: disconnect, and loop_stop, which joins the thread.
Stop ==
  /\ session /= "stopped" /\ pending = {}
  /\ session' = "stopped" /\ flag' = FALSE /\ wire' = << >>
  /\ UNCHANGED <<plcVars, worldVars, due, wait, silence, raw, baseline, pending,
                 counted, heard>>

\* snapshot, the fields that are more than a copy.
Snapshot == [connected |-> flag /\ raw /= None, stale |-> IsStale,
             connecting |-> raw = None]

Publisher == Publish \/ PublishLost \/ PublishFails

Callback == OnConnect \/ Discard \/ OnMessage \/ \E t \in Tags : Emit(t)

Next ==
  \/ \E t \in Tags : TagRises(t) \/ TagFalls(t)
  \/ LineChanges \/ CalmDown \/ MalformedArrives \/ Tick
  \/ Publisher
  \/ Callback \/ ConnectFails \/ OnDisconnect \/ Stop

\* Time passes, the publisher's thread and paho's thread run.
Fairness == WF_vars(Tick) /\ WF_vars(Publisher) /\ WF_vars(Callback)

Spec == Init /\ [][Next]_vars /\ Fairness
-----------------------------------------------------------------------------
\* Type invariant of the source, the publisher and the messages under way.
TypeOK ==
  /\ plc \in SUBSET Tags /\ line \in BOOLEAN /\ calm \in BOOLEAN
  /\ due \in 0..Period /\ wait \in Nat
  /\ wire \in Seq(Payloads)
  /\ session \in {"down", "up", "stopped"}
  /\ flag \in BOOLEAN /\ baseline \in BOOLEAN /\ heard \in BOOLEAN
  /\ raw \in {None} \cup SUBSET Tags
  /\ silence \in 0..(Staleness + 1)
  /\ pending \in SUBSET Tags
  /\ counted \in [Tags -> Nat] /\ rises \in [Tags -> Nat]

\* Every event stands for a rising edge of its own at the line.
NoPhantom == \A t \in Tags : counted[t] <= rises[t]

\* The subscriber is a line source: no edge is invented or counted twice
\* though images are lost, late and in bursts, other clients publish parts of
\* an image, and the broker connection comes and goes; and stop leaves no
\* event behind (mqtt_source.py:65-70, 86-105; mqtt_proto.py:20-34).
Source == INSTANCE LineSource
  WITH asked <- session = "stopped",
       thread <- IF session = "stopped" THEN "over"
                 ELSE IF pending = {} THEN "idle" ELSE "busy"

ImplementsLineSource == Source!LineSpec

\* The first image after a reconnect yields no events.  Nothing sets
\* _baseline again: this rests on a reconnect taking longer than the
\* staleness limit (mqtt_source.py:82-84, 92; production-statistics "Edge
\* re-baseline across data sources").
BaselineAfterReconnect == [][pending' /= {} /\ pending = {} => heard]_vars

\* What is shown as connected and fresh was received over THIS connection to
\* the broker, not before an outage (mqtt_source.py:111-130).
Live == Snapshot.connected /\ ~Snapshot.stale

LiveIsOfThisSession == Live => heard

\* A line that falls silent is shown stale sometime and from then on, even
\* when other messages keep coming (plc-connectivity "MQTT liveness by
\* packet cadence"; mqtt_source.py:106-114).
SilenceShows == <>[](~line) => <>[](Snapshot.stale)

\* Once nothing fails any more a source that is not stopped becomes live and
\* stays live, so every further edge is counted: provided that the publisher
\* polls at least once per staleness limit, which no code ensures
\* (POLL_INTERVAL_MS, config.py:67; mqtt_source.py:15).
StaysLive ==
  Period <= Staleness => (<>[](calm /\ session /= "stopped") => <>[]Live)
=============================================================================
