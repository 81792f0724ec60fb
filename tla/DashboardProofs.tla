--------------------------- MODULE DashboardProofs --------------------------
(***************************************************************************)
(* Proofs about Dashboard, for every set of brokers and databases and any  *)
(* number of requests and answers under way.                               *)
(***************************************************************************)
EXTENDS Dashboard, FiniteSetTheorems, TLAPS

\* What the page awaits: one switch while switching, and none otherwise.
AwaitsOne ==
  /\ ~switching => \A s \in switches : ~s.waited
  /\ switching => \E s \in switches : s.waited /\ \A t \in switches : t.waited => t = s

\* A request that is not disturbed meets names that fit the source, and makes
\* its target the source; so it succeeds with its target active, and what is
\* then claimed stays so until something disturbs it.
LineBooks ==
  ~disturbed =>
    /\ claim /= Blank /\ ~switching => source = claim
    /\ \A s \in switches : s.waited =>
         /\ s.phase \in {"sent", "running", "broker"} => NamesFit
         /\ s.phase \in {"setName", "setBroker", "ok"} => source = s.to

\* The test that stored last stored the DSN.
OeeBooks ==
  /\ connected /= None /\ vouched => dsn = connected
  /\ \A t \in tests : t.last => dsn = t.db
-----------------------------------------------------------------------------
\* What the steps of a switch have in common.
LEMMA SwitchGoes ==
  ASSUME NEW s, Switch(s)
  PROVE  /\ UNCHANGED <<sessionVars, answers, viewVars, switching, claim>>
         /\ \E phase \in Phases : Advance(s, phase)
<1>1. ASSUME NEW from, NEW to \in Phases, Go(s, from, to)
      PROVE  /\ UNCHANGED <<sessionVars, answers, viewVars, switching, claim>>
             /\ \E phase \in Phases : Advance(s, phase)
  BY <1>1, Zenon DEF Go
<1>2. {"ok", "failed", "broker", "source", "setName", "setBroker"} \subseteq Phases
  BY DEF Phases, Ended
<1>3. CASE CompareName(s)
  <2>1. PICK to \in {"ok", "failed", "broker", "source"} : Go(s, "running", to)
    BY <1>3 DEF CompareName
  <2> QED BY <1>1, <1>2, <2>1
<1>4. CASE CompareBroker(s)
  <2>1. PICK to \in {"ok", "failed", "source"} : Go(s, "broker", to)
    BY <1>4 DEF CompareBroker
  <2> QED BY <1>1, <1>2, <2>1
<1>5. CASE StoreSource(s) \/ StoreName(s) \/ StoreBroker(s)
  <2>1. Go(s, "source", "setName") \/ Go(s, "setName", "setBroker") \/ Go(s, "setBroker", "ok")
    BY <1>5, Zenon DEF StoreSource, StoreName, StoreBroker
  <2> QED BY <1>1, <1>2, <2>1
<1> QED BY <1>3, <1>4, <1>5 DEF Switch

\* Both panels leave the session well typed.
LEMMA SessionTyped == SessionType /\ [Next]_vars => SessionType'
<1> SUFFICES ASSUME SessionType, [Next]_vars PROVE SessionType'
  OBVIOUS
<1> USE DEF SessionType
<1>1. CASE LineStep
  <2>1. CASE Receives \/ FallsSilent \/ AnswerPoll \/ PollFails \/ ChooseDirect
    BY <2>1 DEF Receives, FallsSilent, AnswerPoll, PollFails, ChooseDirect, sessionVars
  <2>2. CASE (\E t \in Targets : OtherAsks(t)) \/ (\E b \in Brokers : Connect(b))
    BY <2>2 DEF OtherAsks, Connect, sessionVars
  <2>3. ASSUME NEW s \in switches, Admit(s) \/ Switch(s) \/ FetchFails(s)
        PROVE  SessionType'
    BY <2>3, SwitchGoes DEF Admit, FetchFails, sessionVars
  <2>4. ASSUME NEW s \in switches, Settle(s) PROVE SessionType'
    BY <2>4 DEF Settle, ShowLogin
  <2>5. ASSUME NEW a \in answers, Render(a) PROVE SessionType'
    BY <2>5 DEF Render, Refused, ShowLogin
  <2> QED BY <1>1, <2>1, <2>2, <2>3, <2>4, <2>5 DEF LineStep
<1>2. CASE OeeStep
  <2>1. ASSUME NEW d \in Databases,
               DatabaseFlips(d) \/ RowWritten(d) \/ RowsAge(d) \/ OtherConnects(d)
                 \/ ClickConnect(d)
        PROVE  SessionType'
    BY <2>1 DEF DatabaseFlips, RowWritten, RowsAge, OtherConnects, ClickConnect, sessionVars
  <2>2. ASSUME NEW t \in tests, AdmitTest(t) \/ Test(t) \/ Store(t) \/ TestFetchFails(t)
        PROVE  SessionType'
    BY <2>2 DEF AdmitTest, Test, Store, Confirm, TestFetchFails, sessionVars
  <2>3. ASSUME NEW t \in tests, SettleTest(t) PROVE SessionType'
    BY <2>3 DEF SettleTest, ShowLogin
  <2>4. ASSUME NEW kind \in {"row", "trend"}, BeginRead(kind) PROVE SessionType'
    BY <2>4 DEF BeginRead, sessionVars
  <2>5. ASSUME NEW r \in reads, Query(r) \/ ShowRead(r) \/ LoseRead(r)
        PROVE  SessionType'
    BY <2>5 DEF Query, ShowRead, LoseRead, sessionVars
  <2> QED BY <1>2, <2>1, <2>2, <2>3, <2>4, <2>5 DEF OeeStep
<1>3. CASE Login \/ Logout \/ SessionExpires \/ Load \/ Restart
  BY <1>3 DEF Login, LoginSucceeds, Logout, LogOut, ShowLogin, SessionExpires, Expire,
              Load, Restart, sessionVars
<1>4. CASE UNCHANGED vars
  BY <1>4 DEF vars, sessionVars
<1> QED BY <1>1, <1>2, <1>3, <1>4 DEF Next

\* The phases a request goes through keep the set of requests well typed.
LEMMA AdvanceTyped ==
  ASSUME switches \subseteq SwitchRequests, NEW s \in switches,
         NEW phase \in Phases, Advance(s, phase)
  PROVE  switches' \subseteq SwitchRequests
BY DEF Advance, SwitchRequests

LEMMA AdvanceTestTyped ==
  ASSUME tests \subseteq Tests, NEW t \in tests,
         NEW phase \in {"sent", "testing", "tested"} \cup TestEnded, AdvanceTest(t, phase)
  PROVE  tests' \subseteq Tests
BY DEF AdvanceTest, Tests, TestEnded

\* A switch leaves a source with a name and a broker.
LEMMA SwitchTyped ==
  ASSUME LineType, NEW s \in switches, Switch(s)
  PROVE  /\ source' \in Sources /\ reception' \in {"none", "live", "stale"}
         /\ name' \in {"direct", "mqtt"} /\ broker' \in Brokers \cup {Unset}
         /\ disturbed' \in BOOLEAN
<1>1. s.to \in Targets /\ s.waited \in BOOLEAN
  BY DEF LineType, SwitchRequests
<1>2. CASE CompareName(s) \/ CompareBroker(s)
  BY <1>2 DEF CompareName, CompareBroker, LineType, serverVars
<1>3. CASE StoreSource(s)
  BY <1>1, <1>3 DEF StoreSource, LineType, Sources
<1>4. CASE StoreName(s)
  <2>1. disturbed' \in BOOLEAN
    BY <1>4, Zenon DEF StoreName
  <2> QED BY <1>4, <2>1 DEF StoreName, LineType, NameOf
<1>5. CASE StoreBroker(s)
  <2>1. disturbed' \in BOOLEAN
    BY <1>5, Zenon DEF StoreBroker
  <2> QED BY <1>5, <2>1 DEF StoreBroker, LineType, BrokerOf
<1> QED BY <1>2, <1>3, <1>4, <1>5 DEF Switch

\* What the page sends is a request.
LEMMA RequestTyped ==
  ASSUME NEW t \in Targets
  PROVE  [to |-> t, phase |-> "sent", waited |-> TRUE] \in SwitchRequests
BY DEF SwitchRequests, Phases

LEMMA TestRequestTyped ==
  ASSUME NEW d \in Databases
  PROVE  NewTest(d) \in Tests
BY DEF NewTest, Tests

\* A request of the page is well typed, and its panel stays so.
LEMMA AskTyped ==
  ASSUME LineType, NEW t \in Targets, Ask(t)
  PROVE  switches' \subseteq SwitchRequests /\ switching' = TRUE /\ disturbed' \in BOOLEAN
<1>1. switches' = switches \cup {[to |-> t, phase |-> "sent", waited |-> TRUE]}
  BY Zenon DEF Ask
<1>2. switches' \subseteq SwitchRequests
  BY <1>1, RequestTyped DEF LineType
<1>3. switching' = TRUE /\ disturbed' \in BOOLEAN
  BY Zenon DEF Ask
<1> QED BY <1>2, <1>3

LEMMA ConnectOeeTyped ==
  ASSUME OeeType, NEW d \in Databases, ConnectOee(d)
  PROVE  tests' \subseteq Tests /\ disabled' = TRUE
BY TestRequestTyped DEF OeeType, ConnectOee

\* The line panel stays well typed (index.html:362-526).
LEMMA LineTyped == LineType /\ [Next]_vars => LineType'
<1> SUFFICES ASSUME LineType, [Next]_vars PROVE LineType'
  OBVIOUS
<1> USE DEF LineType
<1>1. CASE Receives \/ FallsSilent
  BY <1>1 DEF Receives, FallsSilent, viewVars, controlVars
<1>2. ASSUME NEW t \in Targets, OtherAsks(t) PROVE LineType'
  <2>1. [to |-> t, phase |-> "running", waited |-> FALSE] \in SwitchRequests
    BY DEF SwitchRequests, Phases
  <2> QED BY <1>2, <2>1 DEF OtherAsks, serverVars, viewVars, controlVars
<1>3. ASSUME NEW s \in switches, Admit(s) PROVE LineType'
  BY <1>3, AdvanceTyped DEF Admit, serverVars, viewVars, controlVars, Phases, Ended
<1>4. ASSUME NEW s \in switches, Switch(s) PROVE LineType'
  <2>1. switches' \subseteq SwitchRequests
    BY <1>4, SwitchGoes, AdvanceTyped
  <2>2. UNCHANGED <<answers, viewVars, switching, claim>>
    BY <1>4, SwitchGoes
  <2>3. /\ source' \in Sources /\ reception' \in {"none", "live", "stale"}
        /\ name' \in {"direct", "mqtt"} /\ broker' \in Brokers \cup {Unset}
        /\ disturbed' \in BOOLEAN
    BY <1>4, SwitchTyped
  <2> QED BY <2>1, <2>2, <2>3 DEF viewVars
<1>5. ASSUME NEW s \in switches, Settle(s) PROVE LineType'
  BY <1>5 DEF Settle, ClaimAfter, serverVars, viewVars
<1>6. ASSUME NEW s \in switches, FetchFails(s) PROVE LineType'
  BY <1>6 DEF FetchFails, Abandon, SwitchRequests, serverVars, viewVars
<1>7. CASE AnswerPoll
  BY <1>7 DEF AnswerPoll, StateAnswers, serverVars, viewVars, controlVars
<1>8. CASE PollFails
  BY <1>8 DEF PollFails, serverVars, controlVars
<1>9. ASSUME NEW a \in answers, Render(a) PROVE LineType'
  <2>1. CASE a.reception = "refused"
    BY <1>9, <2>1 DEF Render, serverVars, viewVars, controlVars
  <2>2. CASE a.reception /= "refused"
    <3>1. a.source \in Sources /\ a.reception \in {"none", "live", "stale"}
      BY <2>2 DEF StateAnswers
    <3>2. shown' \in Sources \cup {Blank} /\ lamps' \in Sources \cup {Blank}
      BY <1>9, <2>2, <3>1 DEF Render, RenderState
    <3>3. banner' \in BOOLEAN
      BY <1>9, <2>2, Zenon DEF Render, RenderState, Banner, Stale, Connecting
    <3> QED BY <1>9, <3>2, <3>3 DEF Render, serverVars, controlVars
  <2> QED BY <2>1, <2>2
<1>10. ASSUME NEW b \in Brokers, ConnectMqtt(b), UNCHANGED <<serverVars, answers, viewVars>>
       PROVE  LineType'
  <2>1. switches' \subseteq SwitchRequests /\ switching' = TRUE /\ disturbed' \in BOOLEAN
    BY <1>10, AskTyped, Zenon DEF ConnectMqtt, Targets
  <2> QED BY <1>10, <2>1 DEF ConnectMqtt, serverVars, viewVars
<1>11. CASE ChooseDirect
  <2>1. switches' \subseteq SwitchRequests /\ switching' = TRUE /\ disturbed' \in BOOLEAN
    BY <1>11, AskTyped, Zenon DEF ChooseDirect, Targets
  <2> QED BY <1>11, <2>1 DEF ChooseDirect, serverVars, viewVars
<1>12. CASE LineLoads
  <2>1. switches' \subseteq SwitchRequests
    <3> DEFINE Left == {[s EXCEPT !.waited = FALSE] : s \in {t \in switches : t.phase \notin Ended}}
    <3>1. Left \subseteq SwitchRequests
      BY DEF SwitchRequests
    <3>2. CASE switches' = Left
      BY <3>1, <3>2
    <3>3. ASSUME NEW b \in Brokers,
                 switches' = Left \cup {[to |-> b, phase |-> "sent", waited |-> TRUE]}
          PROVE  switches' \subseteq SwitchRequests
      BY <3>1, <3>3, RequestTyped DEF Targets
    <3> QED BY <1>12, <3>2, <3>3, Zenon DEF LineLoads
  <2>2. switching' \in BOOLEAN /\ disturbed' \in BOOLEAN
    BY <1>12, Zenon DEF LineLoads
  <2> QED BY <1>12, <2>1, <2>2 DEF LineLoads, serverVars
<1>13. CASE LineRestarts
  <2>1. switches' \subseteq SwitchRequests
    BY <1>13 DEF LineRestarts, SwitchRequests, Phases, Ended
  <2>2. /\ source' \in Sources /\ name' \in {"direct", "mqtt"}
        /\ broker' \in Brokers \cup {Unset}
    BY <1>13, SourceAssumption DEF LineRestarts, Sources, Targets, NameOf, BrokerOf
  <2> QED BY <1>13, <2>1, <2>2 DEF LineRestarts, viewVars
<1>14. CASE UNCHANGED lineVars
  BY <1>14 DEF lineVars, serverVars, viewVars, controlVars
<1>15. CASE LineLogsIn
  BY <1>15, <1>10, <1>14
  DEF LineLogsIn, lineVars, serverVars, viewVars, controlVars
<1> QED BY <1>1, <1>2, <1>3, <1>4, <1>5, <1>6, <1>7, <1>8, <1>9, <1>10, <1>11, <1>12,
           <1>13, <1>14, <1>15
        DEF Next, LineStep, Connect, Login, Logout, SessionExpires, Load, Restart, vars

\* The OEE panel stays well typed (index.html:580-726).
LEMMA OeeTyped == OeeType /\ [Next]_vars => OeeType'
<1> SUFFICES ASSUME OeeType, [Next]_vars PROVE OeeType'
  OBVIOUS
<1> USE DEF OeeType
<1>1. ASSUME NEW d \in Databases,
             DatabaseFlips(d) \/ RowWritten(d) \/ RowsAge(d) \/ OtherConnects(d)
      PROVE  OeeType'
  <2>1. CASE DatabaseFlips(d) \/ RowWritten(d) \/ RowsAge(d)
    BY <2>1 DEF DatabaseFlips, RowWritten, RowsAge, oeeViewVars, barVars
  <2>2. CASE OtherConnects(d)
    <3>1. tests' \subseteq Tests
      BY <2>2 DEF OtherConnects, Replaced, Tests
    <3> QED BY <2>2, <3>1 DEF OtherConnects, databaseVars, oeeViewVars
  <2> QED BY <1>1, <2>1, <2>2
<1>2. ASSUME NEW t \in tests, AdmitTest(t) PROVE OeeType'
  BY <1>2, AdvanceTestTyped DEF AdmitTest, TestEnded, databaseVars, oeeViewVars, barVars
<1>3. ASSUME NEW t \in tests, Test(t) PROVE OeeType'
  BY <1>3, AdvanceTestTyped DEF Test, TestEnded, databaseVars, oeeViewVars, barVars
<1>4. ASSUME NEW t \in tests, Store(t) PROVE OeeType'
  <2>1. Replaced(tests \ {t}) \subseteq Tests
    BY DEF Replaced, Tests
  <2>2. [t EXCEPT !.phase = "ok", !.last = TRUE] \in Tests
    BY DEF Tests, TestEnded
  <2>3. tests' \subseteq Tests
    <3>1. tests' = Replaced(tests \ {t}) \cup
                     (IF t.waited THEN {[t EXCEPT !.phase = "ok", !.last = TRUE]} ELSE {})
      BY <1>4 DEF Store, Confirm
    <3> QED BY <2>1, <2>2, <3>1
  <2> QED BY <1>4, <2>3 DEF Store, Confirm, Tests, databaseVars, oeeViewVars
<1>5. ASSUME NEW t \in tests, SettleTest(t) PROVE OeeType'
  <2>1. vouched' \in BOOLEAN
    BY <1>5 DEF SettleTest, Tests
  <2>2. connected' \in Databases \cup {None}
    BY <1>5 DEF SettleTest, Tests
  <2> QED BY <1>5, <2>1, <2>2 DEF SettleTest, databaseVars, oeeViewVars
<1>6. ASSUME NEW t \in tests, TestFetchFails(t) PROVE OeeType'
  BY <1>6 DEF TestFetchFails, Tests, databaseVars, oeeViewVars
<1>7. ASSUME NEW kind \in {"row", "trend"}, BeginRead(kind) PROVE OeeType'
  BY <1>7 DEF BeginRead, Reads, databaseVars, oeeViewVars, barVars
<1>8. ASSUME NEW r \in reads, Query(r) PROVE OeeType'
  <2>1. Outcome(r) \in {"none", "rows", "failed"}
    BY DEF Outcome
  <2> QED BY <1>8, <2>1 DEF Query, Reads, databaseVars, oeeViewVars, barVars
<1>9. ASSUME NEW r \in reads, ShowRead(r) \/ LoseRead(r) PROVE OeeType'
  BY <1>9 DEF ShowRead, LoseRead, Reads, databaseVars, oeeViewVars, barVars
<1>10. ASSUME NEW d \in Databases, ConnectOee(d),
              UNCHANGED <<dsn, databaseVars, reads, oeeViewVars, connected, vouched>>
       PROVE  OeeType'
  <2>1. tests' \subseteq Tests /\ disabled' = TRUE
    BY <1>10, ConnectOeeTyped
  <2> QED BY <1>10, <2>1 DEF databaseVars, oeeViewVars
<1>11. CASE OeeLoads
  <2>1. tests' \subseteq Tests
    <3> DEFINE Left == {[t EXCEPT !.waited = FALSE] : t \in {u \in tests : u.phase \notin TestEnded}}
    <3>1. Left \subseteq Tests
      BY DEF Tests
    <3>2. CASE tests' = Left
      BY <3>1, <3>2
    <3>3. ASSUME NEW d \in Databases,
                 tests' = Left \cup {NewTest(d)}
          PROVE  tests' \subseteq Tests
      BY <3>1, <3>3, TestRequestTyped
    <3> QED BY <1>11, <3>2, <3>3, Zenon DEF OeeLoads
  <2>2. disabled' \in BOOLEAN
    BY <1>11, Zenon DEF OeeLoads
  <2> QED BY <1>11, <2>1, <2>2 DEF OeeLoads, databaseVars
<1>12. CASE OeeRestarts
  <2>1. tests' \subseteq Tests
    <3> DEFINE Dead(u) == [u EXCEPT !.phase = IF @ \in TestEnded THEN @ ELSE "dead", !.last = FALSE]
    <3>1. ASSUME NEW u \in Tests PROVE Dead(u) \in Tests
      BY DEF Tests, TestEnded
    <3>2. tests' = {Dead(u) : u \in {v \in tests : v.waited}}
      BY <1>12 DEF OeeRestarts
    <3> QED BY <3>1, <3>2
  <2> QED BY <1>12, <2>1 DEF OeeRestarts, databaseVars, oeeViewVars
<1>13. CASE UNCHANGED oeeVars
  BY <1>13 DEF oeeVars, databaseVars, oeeViewVars, barVars
<1>14. CASE OeeLogsIn
  BY <1>14, <1>10, <1>13 DEF OeeLogsIn, oeeVars, databaseVars, oeeViewVars, barVars
<1> QED BY <1>1, <1>2, <1>3, <1>4, <1>5, <1>6, <1>7, <1>8, <1>9, <1>10, <1>11, <1>12,
           <1>13, <1>14
        DEF Next, OeeStep, ClickConnect, Login, Logout, SessionExpires, Load, Restart, vars

\* Every reachable state of the page and the server's part in it is well
\* typed (index.html:299-726).
THEOREM TypeCorrect == Spec => []TypeOK
<1>1. Init => TypeOK
  BY SourceAssumption
  DEF Init, SessionInit, LineInit, OeeInit, TypeOK, SessionType, LineType, OeeType, Sources, Targets,
      NameOf, BrokerOf
<1>2. TypeOK /\ [Next]_vars => TypeOK'
  BY SessionTyped, LineTyped, OeeTyped DEF TypeOK
<1> QED BY <1>1, <1>2, PTL DEF Spec
-----------------------------------------------------------------------------
\* Values of another source than the one the page names are never on display
\* without the banner, whatever the order of the answers (index.html:462-494).
THEOREM OldLampsMarked == Spec => []OldLampsAreMarked
<1>1. Init => OldLampsAreMarked
  BY DEF Init, LineInit, OldLampsAreMarked
<1>2. OldLampsAreMarked /\ [Next]_vars => OldLampsAreMarked'
  <2> SUFFICES ASSUME OldLampsAreMarked, [Next]_vars PROVE OldLampsAreMarked'
    OBVIOUS
  <2> USE DEF OldLampsAreMarked
  <2>1. CASE UNCHANGED viewVars
    BY <2>1 DEF viewVars
  <2>2. CASE PollFails
    BY <2>2 DEF PollFails
  <2>3. ASSUME NEW a \in answers, Render(a) PROVE OldLampsAreMarked'
    BY <2>3 DEF Render, RenderState, Banner, Connecting, viewVars
  <2>4. CASE LineLoads
    BY <2>4 DEF LineLoads
  <2>5. CASE UNCHANGED lineVars
    BY <2>1, <2>5 DEF lineVars
  <2>6. ASSUME NEW s \in switches, Admit(s) \/ Switch(s) \/ Settle(s) \/ FetchFails(s)
        PROVE  UNCHANGED viewVars
    BY <2>6, SwitchGoes DEF Admit, Settle, FetchFails
  <2>7. CASE LineStep
    BY <2>1, <2>2, <2>3, <2>6, <2>7
    DEF LineStep, Receives, FallsSilent, OtherAsks, AnswerPoll, Connect, ChooseDirect
  <2>8. CASE Login \/ Restart
    BY <2>1, <2>8 DEF Login, LineLogsIn, Restart, LineRestarts
  <2> QED BY <2>4, <2>5, <2>7, <2>8 DEF Next, Logout, SessionExpires, Load, vars
<1> QED BY <1>1, <1>2, PTL DEF Spec

\* A switch that goes on is awaited as before.
LEMMA AdvanceAwaits ==
  ASSUME LineType, AwaitsOne, NEW s \in switches, NEW phase, Advance(s, phase),
         switching' = switching
  PROVE  AwaitsOne'
<1> USE DEF LineType, SwitchRequests, AwaitsOne, Advance
<1> DEFINE next == [s EXCEPT !.phase = phase]
<1>1. next.waited = s.waited
  OBVIOUS
<1>2. CASE ~switching
  BY <1>1, <1>2
<1>3. CASE switching /\ s.waited
  <2>1. next \in switches' /\ \A t \in switches' : t.waited => t = next
    BY <1>1, <1>3
  <2> QED BY <1>1, <1>3, <2>1
<1>4. CASE switching /\ ~s.waited
  <2>1. PICK w \in switches : w.waited /\ \A t \in switches : t.waited => t = w
    BY <1>4
  <2>2. w \in switches' /\ \A t \in switches' : t.waited => t = w
    BY <1>1, <1>4, <2>1
  <2> QED BY <1>4, <2>1, <2>2
<1> QED BY <1>2, <1>3, <1>4

LEMMA AskAwaits ==
  ASSUME AwaitsOne, ~switching, NEW t, Ask(t)
  PROVE  AwaitsOne'
<1> DEFINE r == [to |-> t, phase |-> "sent", waited |-> TRUE]
<1>1. switches' = switches \cup {r} /\ switching' = TRUE
  BY Zenon DEF Ask
<1>2. r \in switches' /\ r.waited /\ \A u \in switches' : u.waited => u = r
  BY <1>1 DEF AwaitsOne
<1> QED BY <1>1, <1>2 DEF AwaitsOne

\* Whichever of its paths asks, the page waits for one switch at most.
LEMMA AwaitsStep == LineType /\ AwaitsOne /\ [Next]_vars => AwaitsOne'
<1> SUFFICES ASSUME LineType, AwaitsOne, [Next]_vars PROVE AwaitsOne'
  OBVIOUS
<1>1. CASE UNCHANGED <<switches, switching>>
  BY <1>1 DEF AwaitsOne
<1>2. ASSUME NEW s \in switches, Admit(s) \/ Switch(s) PROVE AwaitsOne'
  BY <1>2, AdvanceAwaits, SwitchGoes DEF Admit, controlVars
<1>3. ASSUME NEW s \in switches, Settle(s) PROVE AwaitsOne'
  BY <1>3 DEF Settle, AwaitsOne
<1>4. ASSUME NEW s \in switches, FetchFails(s) PROVE AwaitsOne'
  BY <1>4 DEF FetchFails, Abandon, AwaitsOne, LineType, SwitchRequests
<1>5. ASSUME NEW b \in Brokers, ConnectMqtt(b) PROVE AwaitsOne'
  BY <1>5, AskAwaits DEF ConnectMqtt
<1>6. CASE ChooseDirect
  BY <1>6, AskAwaits DEF ChooseDirect
<1>7. CASE LineLoads
  <2> DEFINE Left == {[s EXCEPT !.waited = FALSE] : s \in {t \in switches : t.phase \notin Ended}}
  <2>1. \A s \in Left : ~s.waited
    BY DEF LineType, SwitchRequests
  <2>2. CASE switches' = Left /\ switching' = FALSE
    BY <2>1, <2>2 DEF AwaitsOne
  <2>3. ASSUME NEW b \in Brokers, switching' = TRUE,
               switches' = Left \cup {[to |-> b, phase |-> "sent", waited |-> TRUE]}
        PROVE  AwaitsOne'
    <3> DEFINE r == [to |-> b, phase |-> "sent", waited |-> TRUE]
    <3>1. r \in switches' /\ r.waited /\ \A u \in switches' : u.waited => u = r
      BY <2>1, <2>3
    <3> QED BY <2>3, <3>1 DEF AwaitsOne
  <2> QED BY <1>7, <2>2, <2>3, Zenon DEF LineLoads
<1>8. CASE LineRestarts
  <2> DEFINE Ending(s) == [s EXCEPT !.phase = IF @ \in Ended THEN @ ELSE "dead"]
  <2>1. switches' = {Ending(s) : s \in {t \in switches : t.waited}} /\ switching' = switching
    BY <1>8 DEF LineRestarts
  <2>2. \A s \in switches : Ending(s).waited = s.waited
    BY DEF LineType, SwitchRequests
  <2>3. CASE ~switching
    BY <2>1, <2>2, <2>3 DEF AwaitsOne
  <2>4. CASE switching
    <3>1. PICK w \in switches : w.waited /\ \A t \in switches : t.waited => t = w
      BY <2>4 DEF AwaitsOne
    <3>2. switches' = {Ending(w)} /\ Ending(w).waited
      BY <2>1, <2>2, <3>1
    <3> HIDE DEF Ending
    <3> QED BY <2>1, <2>4, <3>2 DEF AwaitsOne
  <2> QED BY <2>3, <2>4
<1>9. CASE LineStep
  <2>1. ASSUME NEW t \in Targets, OtherAsks(t) PROVE AwaitsOne'
    BY <2>1 DEF OtherAsks, AwaitsOne, controlVars
  <2> QED BY <1>1, <1>2, <1>3, <1>4, <1>5, <1>6, <1>9, <2>1
          DEF LineStep, Receives, FallsSilent, AnswerPoll, Connect, Render, PollFails,
              controlVars
<1>10. CASE Login
  BY <1>1, <1>5, <1>10 DEF Login, LineLogsIn, controlVars
<1> QED BY <1>1, <1>7, <1>8, <1>9, <1>10
        DEF Next, Logout, SessionExpires, Load, Restart, vars, lineVars, controlVars

\* The page never waits for two switches, for any number of requests under
\* way (index.html:384-460).
THEOREM OneSwitchAtATime == Spec => []OneSwitchPerPage
<1>1. Init => AwaitsOne
  BY DEF Init, LineInit, AwaitsOne
<1>2. AwaitsOne => OneSwitchPerPage
  <2> SUFFICES ASSUME AwaitsOne PROVE OneSwitchPerPage
    OBVIOUS
  <2>1. CASE switching
    <3>1. PICK w \in switches : {s \in switches : s.waited} = {w}
      BY <2>1 DEF AwaitsOne
    <3> QED BY <2>1, <3>1, FS_Singleton DEF OneSwitchPerPage
  <2>2. CASE ~switching
    <3>1. {s \in switches : s.waited} = {}
      BY <2>2 DEF AwaitsOne
    <3> QED BY <2>2, <3>1, FS_EmptySet DEF OneSwitchPerPage
  <2> QED BY <2>1, <2>2
<1> QED BY <1>1, <1>2, AwaitsStep, TypeCorrect, PTL DEF Spec, TypeOK

-----------------------------------------------------------------------------
\* A request that the page awaits is the only one, and goes on to a phase.
LEMMA AwaitedBooks ==
  ASSUME LineType, AwaitsOne, NEW s \in switches, s.waited, NEW phase, Advance(s, phase),
         UNCHANGED <<switching, claim>>,
         ~disturbed' => /\ phase \in {"sent", "running", "broker"} => NamesFit'
                        /\ phase \in {"setName", "setBroker", "ok"} => source' = s.to
  PROVE  LineBooks'
<1> DEFINE next == [s EXCEPT !.phase = phase]
<1>1. switching /\ \A t \in switches : t.waited => t = s
  BY DEF AwaitsOne
<1>2. next.phase = phase /\ next.to = s.to
  BY DEF LineType, SwitchRequests
<1>3. \A t \in switches' : t.waited => t = next
  BY <1>1 DEF Advance
<1> HIDE DEF next
<1> QED BY <1>1, <1>2, <1>3 DEF LineBooks

\* One that it does not await disturbs, or leaves the source and its names.
LEMMA UnawaitedBooks ==
  ASSUME LineType, LineBooks, NEW s \in switches, ~s.waited, NEW phase, Advance(s, phase),
         UNCHANGED <<switching, claim>>,
         ~disturbed' => ~disturbed /\ UNCHANGED serverVars
  PROVE  LineBooks'
<1>1. \A t \in switches' : t.waited => t \in switches
  BY DEF Advance, LineType, SwitchRequests
<1> QED BY <1>1 DEF LineBooks, NamesFit, serverVars

LEMMA SwitchBooks ==
  ASSUME LineType, AwaitsOne, LineBooks, NEW s \in switches, Admit(s) \/ Switch(s)
  PROVE  LineBooks'
<1>0. /\ s.to \in Targets /\ Unset \notin Targets /\ UNCHANGED <<switching, claim>>
      /\ source \in Sources
  BY SwitchGoes, SourceAssumption DEF LineType, SwitchRequests, Admit, controlVars
<1>1. CASE Admit(s)
  <2>1. /\ s.phase = "sent" /\ UNCHANGED serverVars /\ disturbed' = disturbed
        /\ Advance(s, IF session THEN "running" ELSE "refused")
    BY <1>1 DEF Admit, controlVars
  <2>2. CASE s.waited
    <3>1. ~disturbed' => NamesFit'
      BY <2>1, <2>2 DEF LineBooks, NamesFit, serverVars
    <3> QED BY <1>0, <2>1, <2>2, <3>1, AwaitedBooks
  <2>3. CASE ~s.waited
    BY <1>0, <2>1, <2>3, UnawaitedBooks
  <2> QED BY <2>2, <2>3
<1>2. CASE CompareName(s)
  <2>1. PICK to \in IF name /= NameOf(s.to) THEN {"source", "failed"}
                    ELSE IF s.to = Direct THEN {"ok"} ELSE {"broker"} :
                s.phase = "running" /\ Advance(s, to)
    BY <1>2, Zenon DEF CompareName, Go
  <2>2. UNCHANGED serverVars /\ disturbed' = disturbed
    BY <1>2 DEF CompareName
  <2>3. CASE s.waited
    <3>1. ~disturbed => NamesFit /\ NamesFit'
      BY <2>1, <2>2, <2>3 DEF LineBooks, NamesFit, serverVars
    <3>2. ~disturbed /\ to = "ok" => source' = s.to
      BY <2>1, <2>2, <3>1 DEF NamesFit, NameOf, serverVars
    <3>3. to \in {"source", "failed", "ok", "broker"}
      BY <2>1
    <3> QED BY <1>0, <2>1, <2>2, <2>3, <3>1, <3>2, <3>3, AwaitedBooks
  <2>4. CASE ~s.waited
    BY <1>0, <2>1, <2>2, <2>4, UnawaitedBooks
  <2> QED BY <2>3, <2>4
<1>3. CASE CompareBroker(s)
  <2>1. PICK to \in IF broker = s.to THEN {"ok"} ELSE {"source", "failed"} :
                s.phase = "broker" /\ Advance(s, to)
    BY <1>3, Zenon DEF CompareBroker, Go
  <2>2. UNCHANGED serverVars /\ disturbed' = disturbed
    BY <1>3 DEF CompareBroker
  <2>3. CASE s.waited
    <3>1. ~disturbed /\ to = "ok" => source' = s.to
      <4>1. ~disturbed => broker = BrokerOf(source)
        BY <2>1, <2>3 DEF LineBooks, NamesFit
      <4>2. to = "ok" => broker = s.to
        BY <2>1
      <4> QED BY <1>0, <2>2, <4>1, <4>2 DEF BrokerOf, serverVars
    <3>2. to \in {"source", "failed", "ok"}
      BY <2>1
    <3> QED BY <1>0, <2>1, <2>2, <2>3, <3>1, <3>2, AwaitedBooks
  <2>4. CASE ~s.waited
    BY <1>0, <2>1, <2>2, <2>4, UnawaitedBooks
  <2> QED BY <2>3, <2>4
<1>4. CASE StoreSource(s)
  <2>1. Advance(s, "setName") /\ source' = s.to /\ disturbed' = ~s.waited
    BY <1>4, Zenon DEF StoreSource, Go
  <2>2. CASE s.waited
    BY <1>0, <2>1, <2>2, AwaitedBooks
  <2>3. CASE ~s.waited
    BY <1>0, <2>1, <2>3, UnawaitedBooks
  <2> QED BY <2>2, <2>3
<1>5. CASE StoreName(s) \/ StoreBroker(s)
  <2>1. PICK from \in {"setName", "setBroker"}, to \in {"setBroker", "ok"} :
          s.phase = from /\ Advance(s, to)
    BY <1>5, Zenon DEF StoreName, StoreBroker, Go
  <2>2. source' = source /\ (~disturbed' => ~disturbed /\ s.waited)
    BY <1>5, Zenon DEF StoreName, StoreBroker
  <2>3. CASE s.waited
    <3>1. ~disturbed' => source' = s.to
      BY <2>1, <2>2, <2>3 DEF LineBooks
    <3> QED BY <1>0, <2>1, <2>3, <3>1, AwaitedBooks
  <2>4. CASE ~s.waited
    BY <1>0, <2>1, <2>2, <2>4, UnawaitedBooks
  <2> QED BY <2>3, <2>4
<1> QED BY <1>1, <1>2, <1>3, <1>4, <1>5 DEF Switch

\* A new request meets names that fit, or counts as disturbed.
LEMMA AskBooks ==
  ASSUME AwaitsOne, ~switching, NEW t, Ask(t), UNCHANGED serverVars
  PROVE  LineBooks'
<1> DEFINE r == [to |-> t, phase |-> "sent", waited |-> TRUE]
<1>1. switches' = switches \cup {r} /\ switching' = TRUE /\ (~disturbed' => NamesFit)
  BY Zenon DEF Ask
<1>2. \A u \in switches' : u.waited => u.phase = "sent"
  BY <1>1 DEF AwaitsOne
<1>3. ~disturbed' => NamesFit'
  BY <1>1 DEF NamesFit, serverVars
<1> QED BY <1>1, <1>2, <1>3 DEF LineBooks

\* What the page claims of the broker, whatever else is under way.
LEMMA LineBooksStep == LineType /\ AwaitsOne /\ LineBooks /\ [Next]_vars => LineBooks'
<1> SUFFICES ASSUME LineType, AwaitsOne, LineBooks, [Next]_vars PROVE LineBooks'
  OBVIOUS
<1>1. CASE UNCHANGED <<source, name, broker, switches, controlVars>>
  BY <1>1 DEF LineBooks, NamesFit, controlVars
<1>2. ASSUME NEW t \in Targets, OtherAsks(t) PROVE LineBooks'
  BY <1>2 DEF OtherAsks, LineBooks, NamesFit, serverVars, controlVars
<1>3. ASSUME NEW s \in switches, Settle(s) PROVE LineBooks'
  BY <1>3 DEF LineBooks, Settle, ClaimAfter, NamesFit, serverVars
<1>4. ASSUME NEW s \in switches, FetchFails(s) PROVE LineBooks'
  <2>1. /\ claim' = Blank /\ disturbed' = disturbed /\ UNCHANGED serverVars
        /\ Abandon(s)
    BY <1>4 DEF FetchFails
  <2>2. \A t \in switches' : t.waited => t \in switches
    BY <2>1 DEF Abandon, LineType, SwitchRequests
  <2> QED BY <2>1, <2>2 DEF LineBooks, NamesFit, serverVars
<1>5. CASE LineLoads
  <2> DEFINE Left == {[s EXCEPT !.waited = FALSE] : s \in {t \in switches : t.phase \notin Ended}}
  <2>1. claim' = Blank /\ UNCHANGED serverVars
    BY <1>5 DEF LineLoads
  <2>2. \A s \in Left : ~s.waited
    BY DEF LineType, SwitchRequests
  <2>3. CASE switches' = Left
    BY <2>1, <2>2, <2>3 DEF LineBooks
  <2>4. ASSUME NEW b \in Brokers, ~disturbed' => NamesFit,
               switches' = Left \cup {[to |-> b, phase |-> "sent", waited |-> TRUE]}
        PROVE  LineBooks'
    <3>1. \A u \in switches' : u.waited => u.phase = "sent"
      BY <2>2, <2>4
    <3>2. ~disturbed' => NamesFit'
      BY <2>1, <2>4 DEF NamesFit, serverVars
    <3> QED BY <2>1, <3>1, <3>2 DEF LineBooks
  <2> QED BY <1>5, <2>3, <2>4, Zenon DEF LineLoads
<1>6. CASE LineStep
  BY <1>1, <1>2, <1>3, <1>4, <1>6, SwitchBooks, AskBooks
  DEF LineStep, Receives, FallsSilent, AnswerPoll, Connect, ConnectMqtt, ChooseDirect,
      Render, PollFails, serverVars
<1>7. CASE Login
  BY <1>1, <1>7, AskBooks DEF Login, LineLogsIn, ConnectMqtt, serverVars
<1>8. CASE Restart
  BY <1>8 DEF Restart, LineRestarts, LineBooks
<1> QED BY <1>1, <1>5, <1>6, <1>7, <1>8
        DEF Next, Logout, SessionExpires, Load, vars, lineVars, serverVars

\* A test that goes on without storing leaves the books.
LEMMA TestBooks ==
  ASSUME OeeType, OeeBooks, NEW t \in tests, NEW phase, AdvanceTest(t, phase),
         UNCHANGED <<dsn, connected, vouched>>
  PROVE  OeeBooks'
<1>1. [t EXCEPT !.phase = phase].last = t.last /\ [t EXCEPT !.phase = phase].db = t.db
  BY DEF OeeType, Tests
<1>2. \A u \in tests' : u \in tests \/ u = [t EXCEPT !.phase = phase]
  BY DEF AdvanceTest
<1> QED BY <1>1, <1>2 DEF OeeBooks

\* What the page claims of the OEE database, whatever else is under way.
LEMMA OeeBooksStep == OeeType /\ OeeBooks /\ [Next]_vars => OeeBooks'
<1> SUFFICES ASSUME OeeType, OeeBooks, [Next]_vars PROVE OeeBooks'
  OBVIOUS
<1>1. CASE UNCHANGED <<dsn, tests, connected, vouched>>
  BY <1>1 DEF OeeBooks
<1>2. ASSUME NEW d, ConnectOee(d), UNCHANGED <<dsn, connected, vouched>> PROVE OeeBooks'
  BY <1>2 DEF ConnectOee, NewTest, OeeBooks
<1>3. ASSUME NEW t \in tests, AdmitTest(t) \/ Test(t) PROVE OeeBooks'
  BY <1>3, TestBooks DEF AdmitTest, Test, barVars
<1>4. ASSUME NEW t \in tests, Store(t) PROVE OeeBooks'
  <2>1. dsn' = t.db /\ vouched' = FALSE
    BY <1>4 DEF Store, Confirm
  <2>2. \A u \in tests' : u.last => u.db = t.db
    BY <1>4 DEF Store, Confirm, Replaced, OeeType, Tests
  <2> QED BY <2>1, <2>2 DEF OeeBooks
<1>5. ASSUME NEW t \in tests, SettleTest(t) PROVE OeeBooks'
  <2>1. tests' \subseteq tests /\ dsn' = dsn
    BY <1>5 DEF SettleTest
  <2>2. \/ t.phase = "ok" /\ connected' = t.db /\ vouched' = t.last
        \/ UNCHANGED <<connected, vouched>>
        \/ connected' = None
    BY <1>5 DEF SettleTest
  <2> QED BY <2>1, <2>2 DEF OeeBooks
<1>6. ASSUME NEW t \in tests, TestFetchFails(t) PROVE OeeBooks'
  <2>1. connected' = None /\ dsn' = dsn
    BY <1>6 DEF TestFetchFails
  <2>2. \A u \in tests' : \E w \in tests : u.last = w.last /\ u.db = w.db
    BY <1>6 DEF TestFetchFails, OeeType, Tests
  <2> QED BY <2>1, <2>2 DEF OeeBooks
<1>7. CASE OeeLoads
  <2> DEFINE Left == {[t EXCEPT !.waited = FALSE] : t \in {u \in tests : u.phase \notin TestEnded}}
  <2>1. connected' = None /\ dsn' = dsn
    BY <1>7 DEF OeeLoads
  <2>2. \A u \in Left : u.last => dsn = u.db
    BY DEF OeeBooks, OeeType, Tests
  <2>3. tests' = Left \/ \E d \in Databases : tests' = Left \cup {NewTest(d)}
    BY <1>7, Zenon DEF OeeLoads
  <2>4. \A d : ~NewTest(d).last
    BY DEF NewTest
  <2> HIDE DEF Left
  <2> QED BY <2>1, <2>2, <2>3, <2>4 DEF OeeBooks
<1>8. ASSUME NEW d \in Databases, OtherConnects(d) PROVE OeeBooks'
  <2>1. vouched' = FALSE /\ \A u \in tests' : ~u.last
    BY <1>8 DEF OtherConnects, Replaced, OeeType, Tests
  <2> QED BY <2>1 DEF OeeBooks
<1>9. CASE OeeStep
  BY <1>1, <1>2, <1>3, <1>4, <1>5, <1>6, <1>8, <1>9
  DEF OeeStep, DatabaseFlips, RowWritten, RowsAge, ClickConnect, BeginRead, Query,
      ShowRead, LoseRead, barVars
<1>10. CASE Login
  BY <1>1, <1>2, <1>10 DEF Login, OeeLogsIn
<1>11. CASE Restart
  <2>1. vouched' = FALSE /\ \A u \in tests' : ~u.last
    BY <1>11 DEF Restart, OeeRestarts, OeeType, Tests
  <2> QED BY <2>1 DEF OeeBooks
<1> QED BY <1>1, <1>7, <1>9, <1>10, <1>11
        DEF Next, Logout, SessionExpires, Load, vars, oeeVars, barVars

\* A status line that names a connection tells the truth, while any number of
\* other requests is under way, until one of them takes effect or the server
\* restarts; a request the page has given up is one of them
\* (index.html:402-417, 455, 674-703; main.py:183-198; source_manager.py:128-141).
THEOREM ClaimsHold == Spec => []ClaimsAreTrue
<1>1. Init => AwaitsOne /\ LineBooks /\ OeeBooks
  BY DEF Init, LineInit, OeeInit, AwaitsOne, LineBooks, OeeBooks
<1>2. LineBooks /\ OeeBooks => ClaimsAreTrue
  BY DEF LineBooks, OeeBooks, ClaimsAreTrue, LineClaimIsTrue, OeeClaimIsTrue
<1> QED BY <1>1, <1>2, AwaitsStep, LineBooksStep, OeeBooksStep, TypeCorrect, PTL
        DEF Spec, TypeOK
=============================================================================
