# A verification development for the PLC conveyor dashboard

TLA+ models of the conveyor dashboard (`app/`), the TLC runs that check them on
small instances, and TLAPS proofs of the theorems that matter most.
`PROJECT.json` lists components, runs, findings, hazards and theorems, and maps
every definition to the lines it models.

## 1. The system

Two processes watch one conveyor line driven by an S7-1200 PLC, and a third one
feeds MQTT:

    PLC --S7--> recorder (app/recorder.py) --SQL--> PostgreSQL `oee` <--SQL-- dashboard
    PLC --S7--> dashboard, source "direct" (app/plc.py)
    PLC --S7--> publisher (app/publisher.py) --MQTT--> broker --> dashboard, source "mqtt"
    browser (app/static/index.html) --HTTP polls--> dashboard (app/main.py)

| Component | State | Operations | Interacts with | What is hard | What makes it correct |
|---|---|---|---|---|---|
| Per-minute counter, `stats.py` | dict of minute buckets, lock | `record`, `snapshot`, `reset` | called by source threads, request threads, switches | the clock is read before the lock; eviction only on a new minute | no minute on display loses or gains an event; bounded size |
| OEE engine, `oee.py` | counts, open cycle with latches, run and stop time, baseline | `on_snapshot`, `on_disconnect`, `metrics` | driven by the recorder | edges merged in one sample; gaps | counts balance and match the definition; no time of a gap is credited |
| Recorder, `recorder.py` | connected, last write, a PLC client | `poll_once`, `maybe_write`, `run`, `main` | PLC, engine, database | link loss between any two steps, lost acknowledgement, crash | run time within up time; fresh rows; polling and writing resume |
| PLC poller, `plc.py`, `edges.py` | last image, previous image, time, flag, stop event | poll thread; `start`, `stop`, `snapshot` | PLC, `on_event`, request threads | flag outside the lock, two-part read, reconnect | no phantom counts; coherent answers; it reconnects and stops |
| MQTT line source, `mqtt_source.py` | as the poller, plus baseline and time of last packet | paho callbacks, `start`, `stop`, `snapshot` | broker, `on_event` | staleness by cadence, reconnect without a new baseline | no event spans a gap; staleness is shown |
| Source manager, `source_manager.py` | active source, its name and broker | `switch`, `start`, `stop`, `connection`, `snapshot` | builds, starts, stops sources; resets the counter | no lock, thread pool, new source started before the old one is stopped | exactly the active source runs; counts belong to it |
| HTTP API, `main.py` | one counter, one manager, one OEE DSN | handlers on a thread pool | all of the above | answers composed of several reads | an answer describes one connection |
| Publisher, `publisher.py` | stop event, MQTT client | poll and publish loop | PLC, broker | at-most-once delivery, stalls | only whole images; cadence means liveness |
| Tag codec, payload, `tags.py`, `mqtt_proto.py` | none | bit extraction, strict JSON | poller, publisher, MQTT source | label set and polarity | decode inverts encode, rejects everything else |
| OEE endpoints, `main.py`, `db.py` | one DSN | connection test, latest row, history | OEE databases, page | tests take seconds, reads use an older DSN, a restart forgets it | figures and claims are those of the database connected |
| Page, `index.html` | switching flag, source mode, widgets | polls, switch, automatic connections, connection bar | HTTP API | answers out of order, fetches given up, frozen values | what is shown belongs to the source named; what is claimed was done |
| Login, `auth.py`, `main.py` | the browser's cookie | login, logout, expiry, gate | every request of the page | a session that ends between two answers | a page that is logged out says so |
| MCP tools, broker wrapper, configuration, scripts | none that changes | - | - | - | not modelled, see section 8 |

`PROJECT.json` lists the hazards: each thing that is hard to test, with its line
and the properties that would catch it going wrong.

## 2. Plan

Most important first. All of it is done.

1. `MinuteCounter` with `CountLog`, the numbers on the charts. *Checked and proved.*
2. `OeeEngine` with `OeeHistory`, the counting rules. *Checked and proved.*
3. `OeeRecorder`, which extends `OeeEngine`. *Checked and proved.*
4. `PlcPoller`. *Checked; every invariant proved.*
5. `SourceManager`, which composes the switch, the threads of the sources, the
   counter and `/api/stats`. *Checked; every invariant proved: that the active source
   runs for any requests, the others as long as requests do not overlap.*
6. `MqttLine`: `MqttLineSource` with the publisher and the broker as its
   environment. *Checked; every invariant proved.* `LineSource`, what this source and
   the poller both promise to the manager. *Checked, and both refinements proved.*
7. `TagCodec`: the table of the tags and the decoding of the two areas. *Proved.*
   The strict parsing of a payload is part of `MqttLine`.
8. `OeePanel`: the OEE endpoints over changing databases, with their part of the
   page. *Checked; types and claims proved.*
9. `LinePanel`, `Session` and `Dashboard`, which composes them with `OeePanel`:
   polls, switch and automatic connections, with answers in any order, lost
   requests, logouts and restarts of the server. *Checked; every invariant proved.*
10. Proofs of every invariant a passing run checks. *Done.*

## 3. Modules and the code

**`MinuteCounter`** (`app/stats.py`). `buckets` is `_buckets`. `record` is two
actions, `ReadKey` (line 39, outside the lock) and `RecordLocked` (the body of
the lock, eviction included); `snapshot` is `ReadNow` and `PointsLocked`;
`Reset` is one. `Tick` moves the wall clock by a member of `ClockSteps`. `log`
is a history: what was recorded since the last reset, in the minute that was
read. **`CountLog`** is the abstract specification: a log of events per minute
and answers exact for every minute still in the window. `ImplementsCountLog`
instantiates it with `answer <- chart`; the other variables have the same names.

**`OeeEngine`** (`app/oee.py`). Each method holds the lock throughout and is one
action. Images are sets of TRUE tags; the monotonic clock is an integer;
percentages are ratios, so no rounding is modelled. **`OeeHistory`** keeps the
sequence of images and gaps fed to the engine, and defines good, bad and total
over that whole history, independently of the code's latches.

**`OeeRecorder`** (`app/recorder.py`, the insert of `app/db.py`) extends the engine.
`pc` is the place in `run`'s loop. Reading an image and feeding it is one step,
because no other thread of the process exists; connecting, reading and inserting
are separate steps, between which the link or database may change. `Crash` and
`Restart` may come anywhere; a start without database only crashes. The world:
`LinkDrops`, `LinkReturns`, `DatabaseChanges`, `Tick`.

**`PlcPoller`** (`app/plc.py`, `app/edges.py`). The poll thread is modelled
statement by statement where another thread can see the difference: the flag,
the two reads of the process image, one step per `on_event` call, lock, image,
time. `snapshot` reads its fields one by one under the lock. `sample` is cleared
when it is dead. `stamp` is not a time but the image it was taken with, which is
what its property needs.

**`SourceManager`** (`app/source_manager.py`, `select_source`, `get_stats` and
`lifespan` of `app/main.py`). A switch is one step per line that touches shared
state. A source is a number; its thread is idle, or busy from the moment an edge
was found until `on_event` has returned. `counted` is the set of sources with
events in the counter since its last reset, the abstraction of `MinuteCounter`
that these properties need; `/api/stats` answers all of it. `Join` waits for the thread; `JoinTimesOut` is the
5 s limit of `PlcPoller.stop`; paho's `loop_stop` has no limit.

**`MqttLine`** (`app/mqtt_source.py`, the loop of `app/publisher.py`). paho calls
the callbacks one after the other on one thread, so each is a step, except that
`_on_message` ends with one step per `on_event` call: it has released the lock
by then, and `snapshot` (an operator here, read in any state) may come between.
`wire` holds the messages under way to the dashboard: the broker and the network
lose or delay them but keep their order, and a lost connection loses them all.
Time is in ticks; `silence` is the time since `_last_recv`, counted to just over
the limit, as the code only compares it. `wait` is the time until paho connects
again. The publisher's two reads of the PLC are one step here (`PlcPoller` has
them apart), and a read and its publishing take no time of their own: `Period`
stands for the whole iteration. `line` is FALSE while the publisher cannot read
its PLC or does not run. `calm` is the environment's promise that nothing fails
or is delayed from now on; liveness that cannot hold without it starts there.

A message is the set of labels that carry a boolean and the set that carry TRUE:
`Encode` writes all labels, `Parse` refuses a payload that lacks one, and other
clients of the broker publish such payloads (`Chatter`).

**`LineSource`** is the abstract specification of both sources: a thread that is
idle, busy or over, and events each of which stands for a rising edge of its own. It
reports only while busy, begins nothing once it was asked to stop, and is over only
from idle, so nothing is reported by a source that has ended. In `PlcPoller` the
thread is idle at the head of the loop and asked when `stop` is set; in `MqttLine` a
callback with events is busy, and `Stop` asks and joins in one. Both state
`ImplementsLineSource`. `SourceManager` uses its sources in the same way: `Notice`,
`Deliver` and `End` are `Begin`, `Report` and `End` with the events of a source
reduced to whether there are any.

**`TagCodec`** (`app/tags.py`) is the table of the fourteen tags and `raw_values`,
over bytes that are sets of bit positions. It has no state and no run, only a
theorem: the decoding of what the PLC holds is what it holds.

**`Session`** (`app/auth.py`, the middleware of `app/main.py`, the login overlay).
The server keeps no session, so its state is whether the browser's cookie
verifies, and whether the overlay is shown.

**`LinePanel`** (`index.html:362-526`, `get_state`, `select_source`). `source` and
`reception` are the server's active source and its data, `name` and `broker` the
two values by which `switch` decides whether a request is a no-op. A switch request
is a record that goes from `sent` by the gate (`Admit`) to `running` and then by the
steps of `switch` that a claim can depend on: the comparisons (`CompareName`,
`CompareBroker`) and the three assignments (`StoreSource`, `StoreName`,
`StoreBroker`). Switches that overlap may leave name and broker at odds with the
source (`NamesFit`), and a later request may then be answered ok without a switch.
`waited` says that the page still waits for the request. A fetch that fails, and a
page that is loaded again, leave a request to the server that nobody waits for
(`Abandon`); the requests of other clients (`OtherAsks`) are of the same kind, and
two such requests that agree in target and phase are one record.
A poll is modelled from its answer on: `answers` is the set of those under way,
rendered in any order or lost. `shown` is the source the page names, `lamps` the
source of the values on display, `claim` the broker in "subscribed to". `disturbed`
is a history variable: since the page asked, or since its own request stored its
source, a request it does not wait for, or a restart, has touched source, name or
broker; or these did not fit each other when it asked. A request that was given up
and is still under way disturbs nothing until it takes effect.

**`OeePanel`** (`index.html:580-726`, `connect_oee`, `get_oee`, `get_oee_history`,
`app/db.py`). A connection test is asked, admitted, run against the database
(`Test`), and stored (`Store`) as separate steps, so two of them overlap as they
do on the thread pool. A read takes the DSN when it begins and meets the database
later (`Query`). A figure is the database it came from. `filled` are the databases
with rows, `recent` those with a row of the last 10 minutes: the tiles are the latest
row, however old, the trend what is left of the last 10 minutes, so that of an idle
line it empties (`RowsAge`). `vouched` is a history variable: the DSN stored for the
test that "connected to" is about is still the last one that was stored.

**`Dashboard`** joins the panels in the steps they share: `Login`, which closes
the overlay and starts the automatic connections again, `Load` and `Restart`. A
`Restart` of the server forgets the DSN, returns to `DATA_SOURCE` and leaves the
requests that were under way without an answer.

`MC*` modules hold the instances for TLC, `*Proofs` modules the theorems.
Operators marked *Mutant* are plausible wrong versions of the definition that
follows them; they are used by nothing in the specifications.

## 4. Runs

| Run | Result | What it shows |
|---|---|---|
| `minute_counter` | holds | lagging threads never cost an event on display; the dict stays bounded; `CountLog` is implemented |
| `minute_counter_clock` | **violated** | a clock set forward and back loses counts, it does not only misplace them |
| `oee_history` | holds | sample-by-sample counting equals the definition over the whole history |
| `oee_clean_part` | **violated** | parts that finish and enter in the same sample are both bad |
| `oee_recorder` | holds | outages are paused, rows are fresh and in range, the recorder recovers |
| `plc_poller` | holds | it implements `LineSource` (no phantom counts, nothing begun after stop), coherent answers, it reconnects and stops |
| `plc_poller_baseline` | **violated** | the first image after a reconnect does yield events |
| `source_manager` | holds | one switch at a time leaves exactly the active source and its counts, but for late events of a poller whose join timed out |
| `source_manager_race` | **violated** | overlapping switches orphan a running source |
| `source_manager_stats` | **violated** | old counts are answered under the new connection during a switch |
| `mqtt_line` | holds | it implements `LineSource` though messages are lost, late and malformed; no event spans a reconnect, silence is shown stale, a healthy line becomes live and stays live |
| `dashboard` | holds | whatever is lost, overtaken, given up, reloaded, logged out or restarted: old values are never shown without the banner, the page waits for one switch at most, what it claims is true until some other request or a restart takes effect, and lamps, figures and overlay settle on what the server has |

### The findings

- *Clock.* `_evict_locked` evicts relative to the key being recorded. An event
  recorded while the clock is a window ahead empties the real window.
  `design.md:61` of the in-memory-count-stats change accepts only misplaced counts.
- *Same-sample edges.* `_count_locked` handles B3 before B1. The part that
  just finished is forced to bad, and the part that just entered is then
  finished by the other part's B1 edge, with the latches of one sample.
- *Baseline after reconnect.* `PlcPoller` keeps `_previous_raw`, against its own
  docstring and the production-statistics requirement. `ImplementsLineSource` still holds:
  such an event stands for an edge that really happened during the outage; what
  fails is the promise not to count it.
- *Overlapping switches.* `switch` takes no lock and FastAPI runs it on a thread
  pool; the page disables its buttons, but another tab, its automatic connection
  at load, or any other client of the API does not see them. The orphan polls its PLC or broker,
  and counts, until the process ends.
- *Statistics during a switch.* The source is replaced before the counter is reset.

Disagreements without a run of their own:

- *Lamps at a switch.* plc-connectivity (spec.md:66, 70, 74, 78, 112) asks that the
  previous values are cleared. `renderState` returns before it touches the lamps
  while there are no values (`index.html:478`), so they stay on. They are under the
  banner until the new source delivers, which is what `OldLampsAreMarked` states and
  `OldLampsMarked` proves.
- *"Connecting".* The banner says "Connecting to" only when an answer is connecting
  and not stale (`index.html:465-472`), but both real sources answer stale until
  their first image (`mqtt_source.py:111-113`, `plc.py:85`), so it reads "STALE -
  connection lost". `Banner` is visible either way; its text is not modelled.
- *Trend of an unreachable database.* `/api/oee` answers nulls, and the tiles show
  dashes; `/api/oee/history` answers 503, which the page ignores
  (`index.html:634`), so the chart keeps its old points. `FiguresFollow` makes that
  exception explicit.
- *Message of the MCP tool.* `get_iq_data` explains missing values by "no broker
  address has been submitted" whenever the snapshot is connecting
  (`mcp_server.py:74-79`), but a poller or subscriber with an address is connecting,
  too, before its first image.
- *Late event of an abandoned poller.* `PlcPoller.stop` gives up after 5 s
  (`plc.py:79`), and the counter is reset all the same. An event of the poll that was
  hanging is counted after the reset and shown under the new connection, also in
  answers that no switch overlaps, against "Count reset on connection change" of
  production-statistics. `NoForeignCounts` and `QuietStatsMatch` name that exception.
- *A request given up.* When the fetch of a switch fails, the page enables its
  buttons while the server may still be busy with it (`index.html:414-421`). One
  page alone can so make the overlap of `source_manager_race`, and make its own
  status false: b1 is given up, b2 is answered, "subscribed to b2" appears, and then
  the switch to b1 ends. The same holds for tests of OEE databases, where the one
  that is stored last wins (`main.py:196`), and a switch that overlapped another one
  can leave a name and broker behind by which a later request for b2 is a no-op
  although the source is b1's. `ClaimsAreTrue` says that a claim is false for none but
  these reasons, another client's requests, and a restart.
- *Restart of the server.* "subscribed to" and "connected to" stay on the page,
  although the server is back at its startup source and has no DSN. `disturbed` and
  `vouched` leave that out of `ClaimsAreTrue`.

One more disagreement is between two sentences of the same document: the scenario
"Run time accrues from startup" of oee-recording says run time excludes stop
time, its neighbour "Red light accrues stop time" and the formula for
availability include it. The code includes it; `RunWithinUpTime` and `RowsInRange`
state that reading.

## 5. Bounds

- `minute_counter`: a window of 2 minutes in 5 forward minutes, 2 recording
  threads, 1 reader, 4 events. A bucket can expire, be recreated by a thread
  that is late by more than a window, and be evicted again. `minute_counter_clock`
  adds jumps by a whole window both ways.
- `oee_history`: 6 entries from 9 images and gaps: a part that is overtaken and
  the one that overtakes it, with a gap in either.
- `oee_recorder`: 3 ticks with a write interval of 2 (the first row at once, one
  more due), one part, one crash. `MaxParts` only bounds the counts: counting is
  checked in `oee_history`.
- `plc_poller`: one event tag in each area, so that a torn read matters; three
  rises, two of the same tag; one reader. The link may drop without bound.
- `source_manager`: 3 sources, 2 brokers, so that `direct` can be left and
  re-entered, and a broker replaced by another; one reader. Two requests in the
  race run. Guards with `MaxSources` end requests that the bound leaves no source.
- `mqtt_line`: 2 tags and 3 rises; a tick is 500 ms, so the limit is 2, the period 2
  (the longest one that keeps a source live) and the reconnect delay 3 (the
  shortest over the limit, where a reconnect is hardest to tell from a pause);
  2 messages under way, enough for a late one behind another, or for an image
  behind a payload that lacks labels.
- `dashboard`: 2 brokers and `direct`, 2 databases, 2 switches, 2 tests and 2 answers
  of a kind under way: one that the page waits for and one that it has given up or
  another client's, two answers in either order. The product of all parts is out of
  reach, so a behaviour exercises one part, the *focus*, and the others rest:
  - *lamps*: polls in any order, the session, and a switch of another client at a
    time, to `direct` or to one of the brokers, next to the startup source, so there
    are three sources to mistake for each other;
  - *controls*: switches of the page and of others, loads, log-ins and restarts. The
    sources deliver no data, and an answer to a poll is rendered or lost before the
    next step, as all the controls read of it is which source the page names;
  - *row* and *trend*: the reads of the tiles, or those of the trend, while
    databases, rows and DSN change, with loads and restarts. They share no variable
    that either changes;
  - *bar*: connection tests, loads, log-ins and restarts, without reads.

  What is left out is only the interleaving of steps that share no variable but
  `session`, `overlay`, the server's and `dsn`, and each of these may change in every
  focus that reads it, but for the session, which rests while the figures are in
  focus. The proofs need no focus.

Deadlock checking is off: bounded clocks and event budgets end behaviours, and a
stopped poller, a dead recorder and a server that was shut down may rest.

## 6. Fairness

- `OeeRecorder`: weak fairness of the loop (`Poll \/ Write`). Connecting and
  inserting have timeouts (`db.py:5`), so the loop never hangs. Nothing makes a
  link or database come back, a dead process restart, or time pass.
- `PlcPoller`: weak fairness of the poll thread, strong fairness of its taking
  the lock, as readers may hold it again and again, never for ever; weak fairness
  of readers inside `snapshot`. Nothing makes anybody call `stop` or `snapshot`.
- `SourceManager`: weak fairness of a request inside `switch`, of `on_event`
  returning, and of a stopped thread ending. Nothing makes edges or requests come.
- `MqttLine`: weak fairness of time, of the publisher's thread and of paho's
  thread. Time passes freely while things may be delayed; after `CalmDown` it
  waits for a step that is due, which is what "nothing is delayed" means.
- `Dashboard`: weak fairness of polling (`setInterval`) and of the server's reads,
  strong fairness of rendering an answer: some may be lost, not all of them. Nothing
  makes a user click, log in or reload. `MCDashboard` states it for the panel in
  focus, as the other one rests.

Liveness is stated under stable conditions: `Reconnects` and `InsertsResume` start
from "the link (and the database) stays up from now on".

## 7. Proofs

All theorems hold for every value of the constants under the modules' named
assumptions; none needs the bounds.

`MinuteCounterProofs`. `TypeCorrect`. For any clock, one that jumps included:
`JumpsInventNothing`, a minute in the dict holds at most what was recorded in it, and
so `ChartInventsNothing`, an action property: an answer shows no event that was not
recorded. A jump can only lose counts. Then, for a clock that never steps back,
`WindowIsExact` and `RefinesCountLog`. `WindowExact` alone is not inductive: when
the minute advances, a minute enters the window that the invariant said nothing
about, and eviction uses a key read earlier. The invariant adds `KeysRead` (a call
in progress read its minute in the past, so what it evicts is outside every
window that is still to come), `NothingAhead` (no counts for a minute to come)
and `NeverOvercounts` (an answer for minutes that left the window shows at most
what was counted). The refinement maps each step to a step or a stutter of
`CountLog`: `RecordLocked` to `Count`, `PointsLocked` to `Answer`, `Reset` to
`Clear`, `Tick` to `Advance`. That the clock does not step back is needed:
`minute_counter_clock` is the counterexample without it. `BucketsStayBounded`
assigns to each bucket behind the window a thread of its own: `Behind(m)` adds the
leftovers behind the newest bucket `m` to the threads that are about to record so
far back; recording turns one of these into one of those, reading the clock adds
none, and a new newest bucket evicts all of them.

`OeeRecorderProofs`. `EngineCorrect` proves type correctness, balanced counts and
`stopS <= runS` under any caller; `DrivesEngine` proves that the recorder's steps
are calls of the engine, a refinement, so that the invariant carries over
(`BooksBalance`). `RunTimeExcludesOutages` needs `Credit`: an open session has had
the link since it was opened, so run time plus the time since the last sample
never exceeds up time, and a recorder that is not connected has asked for a
baseline. `RowsAreNeverFrozen` needs `Fresh`, `StoredRowsInRange` needs balanced
counts, `OutagesArePaused` is the action property, by cases over `Next`.

`MqttLineProofs`. A reconnect does not set `_baseline` again, so that nothing but
time keeps an event from spanning it. `SilenceCovers` says why that is enough:
while the source is down, the silence so far and the wait to come exceed the
limit; a session that is up and has received nothing is therefore stale, so its
first image is a baseline (`EverySessionBeginsAtBaseline`) and nothing older is
shown as live (`LiveIsFresh`). Both rest on `DelaysAssumption`, that paho waits
longer than the limit: its shortest delay is 1 s, the limit is 1000 ms, and the
comparison is strict. A larger `staleness_ms` would break both.
`EveryEventIsAnEdge` gives each image under way, and the last one received, a date:
how often a tag had risen when the publisher read it (`Dated`). Dates never
decrease along PLC, wire and source, and increase strictly where the tag is TRUE in
an image and was not in an earlier one, so losing messages costs nothing; what was
counted is no more than the date of the last image. The dates are not part of the
model: the invariant says that there are some. `SubscriberIsALineSource` is the
refinement: a step that reports has an edge left to report by the same account, and
`Attached` says that events wait only while the session is up, so that `Stop`, which
waits for them, ends an idle thread.

`DashboardProofs`. `OldLampsMarked` is inductive as it stands: an answer without
values raises the banner, one with values moves name and lamps together.
`OneSwitchAtATime` needs `AwaitsOne`: while `switching` there is one request the
page waits for, and none otherwise; the cardinality follows. `ClaimsHold` needs
`LineBooks` and `OeeBooks`. `LineBooks`: an undisturbed request that the page waits
for meets a name and a broker that fit the source until it has compared them, and
its target is the source from its `StoreSource`, or from the comparison that made it
a no-op, until its answer is shown; that the request is the only one of its kind is
`AwaitsOne` again. The requests that were given up are under way all the time; the
proof shows that nothing but their assignments makes a claim false. `OeeBooks`: the
test that stored last (`last`) stored the DSN, and its answer is what vouches for the
claim. Both hold for any number of brokers, databases, requests and answers, with all
parts of the page active at once.

`PlcPollerProofs`. `AnswersCohere` needs `Locked` (who is between the two writes,
or inside `snapshot`, holds the lock, so image and time differ only while the
thread has it) and `Replying` (what a reader has read hangs together with what it
has yet to read); that values which are not stale exist rests on `Flagged`: the
flag is up only after an image of this connection was published, which is
`LiveIsOfThisSession`. `EveryEventIsAnEdge` is an account per tag, `Paid`: events
counted, the one pending, and the rises still to be found on the way previous
image, sample, PLC never exceed the rises there were. A failed poll throws its
sample away, so it can only lose rises; `Sampled` says how much of the image has
been read. `PollerIsALineSource` maps each step to a step of `LineSource` or a
stutter: leaving the head of the loop to `Begin`, `Emit` to `Report` (guarded by the
account), `Flag` and `Close`, which return to the head, to `Finish`.

`SourceManagerProofs`. The types hold for any requests, and so does `ActiveSourceRuns`:
however many switches overlap, fail or are refused, when none is under way the active
source is not one that was stopped. `Handover` is why: each request that is about to
store a source holds one of its own, which is neither active nor asked to stop, and a
stopped source is active only while a request that stopped it has yet to store its
own. What an overlap does break is shown by `source_manager_race`, so the other
theorems assume `[]OneAtATime`, that no request begins to switch before the one before
it is answered; there may be any number of requests, brokers, sources built and
readers of the statistics. `Alone(c)` says that nobody but c is inside `switch`; each
step has a request that is alone before and after it (`SomeoneAlone`).
`Phase` is the switch told line by line: which
source runs, which may, and which of name and broker are still those of the old
one. For the statistics, `Reading` uses that sources are numbered: while no source
was built since a reader began, none was exchanged either. The counts of pollers whose
join timed out stay outside `CountsAreOwn` and `QuietAnswersMatch`, as the code does
nothing about them.

`TagCodec`. `EveryImageIsRead` rests on `OwnBit`: no two entries of the table share
a bit.

`OeeHistoryProofs`. `CountsMatchHistory` is about a whole history of any length; no
induction over it is needed, as one entry more changes little (`PastStays`: what
became of a part up to the last sample stays as it is). `Follows` is what the engine
has to know of the past: it has an open cycle exactly while some part is on the belt
(`OnBelt`; there is at most one, `BeltIsOpen`), with the latches that were seen since
that part entered, and it asks for a baseline exactly when the next sample has no
predecessor. An entry then ends at most the part on the belt and the part entering
with it (`EndsNow`, `EntersNow`), and each adds one element to the set of good or bad
parts (`SampleStep`). `CleanPartsAreGood` is the other side of the finding of
`oee_clean_part`: the requirement holds in every history in which no sample shows the
B1 edge of one part and the B3 edge of the next (`NoMergedEdges`).

Only model-checked: all liveness, which is out of the prover's reach.

## 8. Not modelled

The MCP tools (they delegate to the same
calls), the broker wrapper and scripts (third-party set-up, pure I/O),
configuration (parsed once). Widths: counts are Python integers, unbounded.
Floating-point rounding of times and percentages is left out, as are minute
labels, logging, and `build_view`, which only renames tags. Of the page, the
statistics charts (each answer replaces all points) and all wording; of the API,
the parsing of a broker address (a rejected one is a request that failed); of the
session, the signature. The first connect of the publisher, which is not retried
(`publisher.py:54`), is part of the environment's `LineChanges`.

`StaysLive` assumes that the publisher polls at least once per staleness limit.
Nothing in the code ensures it: the limit is fixed (`mqtt_source.py:15`), the
interval is `POLL_INTERVAL_MS` (`config.py:67`) plus the time of a connect and a
read. With a longer interval every image follows a gap and no edge is counted.

Known behaviour that no property states: a recorder started while the database
is down ends (`recorder.py:114`) and nothing restarts it; while the database hangs,
every insert attempt holds up polling for up to 5 s, and edges in that time are not
sampled; `connected` and `stale` of one `snapshot` may disagree, because the flag
is written outside the lock (`SnapshotCoherent` states what still holds); counts
of a new source up to the reset at the end of the switch are wiped.
