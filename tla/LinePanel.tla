------------------------------ MODULE LinePanel -----------------------------
(***************************************************************************)
(* The line on the page: the lamps, the banner and the source controls of  *)
(* app/static/index.html with GET /api/state and POST /api/source of       *)
(* app/main.py.  Of a switch, the steps that the page can tell apart are   *)
(* here: the comparisons that make it a no-op, and the three assignments   *)
(* (SourceManager has the rest of its inside).  Requests and answers       *)
(* overtake each other; a fetch may fail although the server goes on with  *)
(* the request.  Requests that agree in all their fields are one record.   *)
(* A poll is modelled from the moment the server answers it.               *)
(***************************************************************************)
EXTENDS Session, FiniteSets, Naturals

CONSTANTS Brokers, Direct,   \* the sources that can be chosen
          Unset,             \* the mqtt source without an address
          Startup,           \* DATA_SOURCE: Direct or Unset
          Blank,             \* nothing was shown or claimed yet
          MaxPolls,          \* bound: answers to polls under way
          MaxSwitches        \* bound: switch requests under way

Targets == Brokers \cup {Direct}
Sources == Targets \cup {Unset}

ASSUME SourceAssumption == Startup \in {Direct, Unset} /\ Unset \notin Targets
ASSUME BlankAssumption == Blank \notin Sources

VARIABLES source,     \* what the server's _source is connected to
          name,       \* _source_name
          broker,     \* _active_broker, Unset for Python's None
          reception,  \* its data: "none" yet, "live", or "stale"
          switches,   \* POST /api/source under way, of the page, abandoned by
                      \* it, or of another client
          answers,    \* answers to GET /api/state under way
          shown,      \* the source of the last answer rendered; sourceMode is its kind
          lamps,      \* the source of the values on display
          banner,     \* the banner is visible
          switching,  \* the page's variable of this name
          claim,      \* the broker that "subscribed to" names
          disturbed   \* history: since the page asked, or made its switch, a
                      \* request it does not await, or a restart, has touched
                      \* the source, its name or its broker

serverVars == <<source, name, broker, reception>>
viewVars == <<shown, lamps, banner>>
controlVars == <<switching, claim, disturbed>>
lineVars == <<serverVars, switches, answers, viewVars, controlVars>>

NameOf(t) == IF t = Direct THEN "direct" ELSE "mqtt"
BrokerOf(t) == IF t \in Brokers THEN t ELSE Unset

\* What decides whether a switch is a no-op fits the active source.
NamesFit == name = NameOf(source) /\ broker = BrokerOf(source)

LineInit ==
  /\ source = Startup /\ name = NameOf(Startup) /\ broker = BrokerOf(Startup)
  /\ reception = "none"
  /\ switches = {} /\ answers = {}
  /\ shown = Blank /\ lamps = Blank /\ banner = FALSE
  /\ switching = FALSE /\ claim = Blank /\ disturbed = FALSE

-----------------------------------------------------------------------------
(* The server. *)

\* The source receives, as PlcPoller and MqttLine have it, and falls silent.
Receives ==
  /\ source /= Unset /\ reception /= "live"
  /\ reception' = "live"
  /\ UNCHANGED <<sessionVars, source, name, broker, switches, answers, viewVars,
                 controlVars>>

FallsSilent ==
  /\ reception = "live"
  /\ reception' = "stale"
  /\ UNCHANGED <<sessionVars, source, name, broker, switches, answers, viewVars,
                 controlVars>>

Ended == {"ok", "failed", "refused", "dead"}

\* A request goes on to a phase; nobody hears of the end of one that the page
\* does not await.
Advance(s, phase) ==
  switches' = (switches \ {s}) \cup
    (IF s.waited \/ phase \notin Ended THEN {[s EXCEPT !.phase = phase]} ELSE {})

\* Another tab or another client asks, with a session of its own.
OtherAsks(target) ==
  /\ Cardinality(switches) < MaxSwitches
  /\ switches' = switches \cup {[to |-> target, phase |-> "running", waited |-> FALSE]}
  /\ UNCHANGED <<sessionVars, serverVars, answers, viewVars, controlVars>>

\* auth_gate, for POST /api/source.
Admit(s) ==
  /\ s.phase = "sent"
  /\ Advance(s, IF session THEN "running" ELSE "refused")
  /\ UNCHANGED <<sessionVars, serverVars, answers, viewVars, controlVars>>

\* A step of select_source and SourceManager.switch, for whichever client.
Go(s, from, to) ==
  /\ s.phase = from
  /\ Advance(s, to)
  /\ UNCHANGED <<sessionVars, answers, viewVars, switching, claim>>

\* Lines 128-137: direct again, or mqtt with the same broker, is a no-op;
\* otherwise a new source is built and started, or the request fails.
CompareName(s) ==
  /\ \E to \in IF name /= NameOf(s.to) THEN {"source", "failed"}
               ELSE IF s.to = Direct THEN {"ok"} ELSE {"broker"} : Go(s, "running", to)
  /\ UNCHANGED <<serverVars, disturbed>>

\* Mutant: mqtt again is a no-op, whatever its broker.
CompareNoBroker(s) ==
  /\ Go(s, "broker", "ok")
  /\ UNCHANGED <<serverVars, disturbed>>

CompareBroker(s) ==
  /\ \E to \in IF broker = s.to THEN {"ok"} ELSE {"source", "failed"} : Go(s, "broker", to)
  /\ UNCHANGED <<serverVars, disturbed>>

\* Lines 139-141.
StoreSource(s) ==
  /\ Go(s, "source", "setName")
  /\ source' = s.to /\ reception' = "none"
  /\ disturbed' = ~s.waited
  /\ UNCHANGED <<name, broker>>

StoreName(s) ==
  /\ Go(s, "setName", "setBroker")
  /\ name' = NameOf(s.to)
  /\ disturbed' = (disturbed \/ ~s.waited)
  /\ UNCHANGED <<source, broker, reception>>

StoreBroker(s) ==
  /\ Go(s, "setBroker", "ok")
  /\ broker' = BrokerOf(s.to)
  /\ disturbed' = (disturbed \/ ~s.waited)
  /\ UNCHANGED <<source, name, reception>>

Switch(s) ==
  CompareName(s) \/ CompareBroker(s) \/ StoreSource(s) \/ StoreName(s) \/ StoreBroker(s)

\* GET /api/state is answered, or refused by auth_gate.
AnswerPoll ==
  /\ Cardinality(answers) < MaxPolls
  /\ answers' = answers \cup
       {IF session THEN [source |-> source, reception |-> reception]
                   ELSE [source |-> Blank, reception |-> "refused"]}
  /\ UNCHANGED <<sessionVars, serverVars, switches, viewVars, controlVars>>

\* The server's part in a restart: requests under way get no answer.
LineRestarts ==
  /\ source' = Startup /\ name' = NameOf(Startup) /\ broker' = BrokerOf(Startup)
  /\ reception' = "none"
  /\ switches' = {[s EXCEPT !.phase = IF @ \in Ended THEN @ ELSE "dead"] :
                  s \in {t \in switches : t.waited}}
  /\ disturbed' = TRUE
  /\ UNCHANGED <<answers, viewVars, switching, claim>>

-----------------------------------------------------------------------------
(* The page. *)

Ask(target) ==
  /\ Cardinality(switches) < MaxSwitches
  /\ switches' = switches \cup {[to |-> target, phase |-> "sent", waited |-> TRUE]}
  /\ switching' = TRUE
  /\ disturbed' = ~NamesFit

\* Mutant: the button is disabled, so the guard seems superfluous.
ConnectUnguarded(b) == Ask(b) /\ claim' = Blank

\* connectMqttBroker, with the address in the field: typed, stored, restored
\* by the browser, or filled in by renderSourceControls.
ConnectMqtt(b) ==
  /\ ~switching
  /\ Ask(b)
  /\ claim' = Blank

Connect(b) ==
  /\ ConnectMqtt(b)
  /\ UNCHANGED <<sessionVars, serverVars, answers, viewVars>>

\* switchSource("direct"); sourceMode is "direct" until an answer came.
ChooseDirect ==
  /\ ~switching /\ shown \notin {Direct, Blank}
  /\ Ask(Direct)
  /\ UNCHANGED <<sessionVars, serverVars, answers, viewVars, claim>>

\* Mutants: the status names whatever was switched to; the status of the
\* broker survives a switch to direct.
ClaimTarget(s) == IF s.phase = "ok" THEN s.to ELSE Blank
ClaimKept(s) == IF s.phase = "ok" /\ s.to \in Brokers THEN s.to ELSE claim

ClaimAfter(s) == IF s.phase = "ok" /\ s.to \in Brokers THEN s.to ELSE Blank

\* The answer arrives, or the fetch rejects because the server died.
Settle(s) ==
  /\ s.waited /\ s.phase \in Ended
  /\ switches' = switches \ {s}
  /\ switching' = FALSE
  /\ claim' = ClaimAfter(s)
  /\ IF s.phase = "refused" /\ s.to \in Brokers THEN ShowLogin ELSE UNCHANGED overlay
  /\ UNCHANGED <<session, serverVars, answers, viewVars, disturbed>>

\* The page gives up on a request, and the server may go on with it.
Abandon(s) ==
  switches' = (switches \ {s}) \cup
    (IF s.phase \in Ended THEN {} ELSE {[s EXCEPT !.waited = FALSE]})

\* The fetch rejects while the request is under way.
FetchFails(s) ==
  /\ s.waited
  /\ Abandon(s)
  /\ switching' = FALSE /\ claim' = Blank
  /\ UNCHANGED <<sessionVars, serverVars, answers, viewVars, disturbed>>

Stale(a) == a.source /= Unset /\ a.reception /= "live"
Connecting(a) == a.reception = "none"

\* Mutant: a refused poll is like a failed one.
RefusedUnseen == UNCHANGED overlay

Refused == ShowLogin

\* Mutants: the banner is for stale data only; an answer without values is
\* skipped.
BannerStale(a) == Stale(a)
RenderNothing(a) ==
  IF a.reception = "none" THEN UNCHANGED viewVars
  ELSE shown' = a.source /\ lamps' = a.source /\ banner' = Stale(a)

Banner(a) == Stale(a) \/ Connecting(a)

\* renderState: without values, the lamps stay as they are.
RenderState(a) ==
  /\ shown' = a.source
  /\ banner' = Banner(a)
  /\ lamps' = IF a.reception = "none" THEN lamps ELSE a.source

\* pollState, answered.
Render(a) ==
  /\ answers' = answers \ {a}
  /\ IF a.reception = "refused"
     THEN Refused /\ UNCHANGED viewVars
     ELSE RenderState(a) /\ UNCHANGED overlay
  /\ UNCHANGED <<session, serverVars, switches, controlVars>>

\* pollState, whose fetch failed: the answer, if there is one, is lost.
PollFails ==
  /\ \E a \in answers \cup {Blank} : answers' = answers \ {a}
  /\ banner' = TRUE
  /\ UNCHANGED <<sessionVars, serverVars, switches, shown, lamps, controlVars>>

\* The page's part in a load: requests of the page before it are abandoned.
\* With an address in storage, which all tabs share, it connects.
LineLoads ==
  LET Left == {[s EXCEPT !.waited = FALSE] : s \in {t \in switches : t.phase \notin Ended}}
  IN  /\ shown' = Blank /\ lamps' = Blank /\ banner' = FALSE
      /\ answers' = {} /\ claim' = Blank
      /\ \/ switches' = Left /\ switching' = FALSE /\ UNCHANGED disturbed
         \/ /\ Cardinality(Left) < MaxSwitches
            /\ \E b \in Brokers :
                 switches' = Left \cup {[to |-> b, phase |-> "sent", waited |-> TRUE]}
            /\ switching' = TRUE /\ disturbed' = ~NamesFit
      /\ UNCHANGED serverVars

\* loginSubmit connects again when an address is stored.
LineLogsIn ==
  /\ \/ UNCHANGED <<switches, controlVars>>
     \/ \E b \in Brokers : ConnectMqtt(b)
  /\ UNCHANGED <<serverVars, answers, viewVars>>

LineStep ==
  \/ Receives \/ FallsSilent
  \/ \E t \in Targets : OtherAsks(t)
  \/ \E s \in switches : Admit(s) \/ Switch(s) \/ Settle(s) \/ FetchFails(s)
  \/ AnswerPoll \/ PollFails \/ \E a \in answers : Render(a)
  \/ \E b \in Brokers : Connect(b)
  \/ ChooseDirect

Phases == {"sent", "running", "broker", "source", "setName", "setBroker"} \cup Ended
SwitchRequests ==
  [to : Targets, phase : Phases, waited : BOOLEAN]
StateAnswers ==
  [source : Sources, reception : {"none", "live", "stale"}]
  \cup {[source |-> Blank, reception |-> "refused"]}

\* A page keeps polling, and not every answer is lost.
LineFairness ==
  /\ WF_lineVars(AnswerPoll)
  /\ SF_lineVars(\E a \in answers : Render(a))
-----------------------------------------------------------------------------
LineType ==
  /\ source \in Sources /\ name \in {"direct", "mqtt"} /\ broker \in Brokers \cup {Unset}
  /\ reception \in {"none", "live", "stale"}
  /\ switches \subseteq SwitchRequests
  /\ answers \subseteq StateAnswers
  /\ shown \in Sources \cup {Blank} /\ lamps \in Sources \cup {Blank}
  /\ banner \in BOOLEAN /\ switching \in BOOLEAN /\ disturbed \in BOOLEAN
  /\ claim \in Brokers \cup {Blank}

\* Values of another source than the one the page names are on display only
\* under the banner: nothing clears the lamps when the source is switched
\* (index.html:462-478).
OldLampsAreMarked == lamps \notin {Blank, shown} => banner

\* The page never waits for two switches, whichever of its paths asks: the
\* buttons, the load, a log-in (index.html:384-422, 439-460).
OneSwitchPerPage ==
  Cardinality({s \in switches : s.waited}) = IF switching THEN 1 ELSE 0

\* "subscribed to b" is true, also while requests that the page has given up
\* are under way, until one of these, another client or a restart touches the
\* source after the page asked; or the names by which its request became a
\* no-op did not fit the source, as overlapping switches may leave them
\* (index.html:402-417, 455; source_manager.py:128-141).
LineClaimIsTrue ==
  claim /= Blank /\ ~switching /\ ~disturbed => source = claim
=============================================================================
