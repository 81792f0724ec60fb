------------------------------ MODULE OeePanel ------------------------------
(***************************************************************************)
(* The OEE panel: the tiles, the trend and the connection bar of           *)
(* app/static/index.html with the OEE endpoints of app/main.py and the     *)
(* queries of app/db.py.  Handlers run on a thread pool: a test takes      *)
(* seconds before its DSN is stored, and a read uses the DSN it found when *)
(* it began.                                                               *)
(***************************************************************************)
EXTENDS Session, FiniteSets, Naturals

CONSTANTS Databases, None,
          MaxReads,   \* bound: reads of a kind under way
          MaxTests    \* bound: connection tests under way

ASSUME NoneAssumption == None \notin Databases

VARIABLES dsn,       \* _oee_conn["dsn"]
          up,        \* environment: the databases that answer
          filled,    \* environment: those in which a row was recorded
          recent,    \* environment: those with a row of the last 10 minutes
          tests,     \* POST /api/oee/connection under way or abandoned
          reads,     \* GET /api/oee and /api/oee/history under way
          tiles,     \* the database of the figures, or None for dashes
          chart,     \* the database of the trend, or None when empty
          disabled,  \* the connect button
          connected, \* the database that "connected to" names
          vouched    \* history: the DSN stored for that claim is still the last
                     \* one that was stored, and the server was not restarted

databaseVars == <<up, filled, recent>>
oeeViewVars == <<tiles, chart>>
barVars == <<disabled, connected, vouched>>
oeeVars == <<dsn, databaseVars, tests, reads, oeeViewVars, barVars>>

OeeInit ==
  /\ dsn = None
  /\ up \in SUBSET Databases /\ filled \in SUBSET Databases /\ recent \in SUBSET filled
  /\ tests = {} /\ reads = {}
  /\ tiles = None /\ chart = None
  /\ disabled = FALSE /\ connected = None /\ vouched = FALSE

-----------------------------------------------------------------------------
(* The databases and the server. *)

DatabaseFlips(d) ==
  /\ up' = IF d \in up THEN up \ {d} ELSE up \cup {d}
  /\ UNCHANGED <<sessionVars, dsn, filled, recent, tests, reads, oeeViewVars, barVars>>

\* The recorder of that line writes a row, its first one or after a pause.
RowWritten(d) ==
  /\ d \in up \ recent
  /\ filled' = filled \cup {d} /\ recent' = recent \cup {d}
  /\ UNCHANGED <<sessionVars, dsn, up, tests, reads, oeeViewVars, barVars>>

\* Nothing was written for 10 minutes: all rows have left the window.
RowsAge(d) ==
  /\ d \in recent
  /\ recent' = recent \ {d}
  /\ UNCHANGED <<sessionVars, dsn, up, filled, tests, reads, oeeViewVars, barVars>>

\* History: the DSN these tests stored is the last one no more.
Replaced(some) == {[t EXCEPT !.last = FALSE] : t \in some}

\* Another tab or another client has connected the server to a database.
OtherConnects(d) ==
  /\ d \in up /\ d /= dsn
  /\ dsn' = d /\ vouched' = FALSE /\ tests' = Replaced(tests)
  /\ UNCHANGED <<sessionVars, databaseVars, reads, oeeViewVars, disabled, connected>>

TestEnded == {"ok", "failed", "refused", "dead"}

AdvanceTest(t, phase) ==
  tests' = (tests \ {t}) \cup
    (IF t.waited \/ phase \notin TestEnded THEN {[t EXCEPT !.phase = phase]}
     ELSE {})

\* auth_gate, for POST /api/oee/connection.
AdmitTest(t) ==
  /\ t.phase = "sent"
  /\ AdvanceTest(t, IF session THEN "testing" ELSE "refused")
  /\ UNCHANGED <<sessionVars, dsn, databaseVars, reads, oeeViewVars, barVars>>

\* test_oee_connection returns, or raises: unreachable, or a wrong password.
Test(t) ==
  /\ t.phase = "testing"
  /\ \/ t.db \in up /\ AdvanceTest(t, "tested")
     \/ AdvanceTest(t, "failed")
  /\ UNCHANGED <<sessionVars, dsn, databaseVars, reads, oeeViewVars, barVars>>

\* The test is answered, with its DSN the last one stored.
Confirm(t) ==
  /\ tests' = Replaced(tests \ {t}) \cup
       (IF t.waited THEN {[t EXCEPT !.phase = "ok", !.last = TRUE]} ELSE {})
  /\ vouched' = FALSE
  /\ UNCHANGED <<sessionVars, databaseVars, reads, oeeViewVars, disabled, connected>>

\* Mutant: the first connection is kept.
StoreFirst(t) ==
  /\ t.phase = "tested"
  /\ dsn' = IF dsn = None THEN t.db ELSE dsn
  /\ Confirm(t)

\* The rest of connect_oee, after the test.
Store(t) ==
  /\ t.phase = "tested"
  /\ dsn' = t.db
  /\ Confirm(t)

\* get_oee or get_oee_history finds the DSN; auth_gate has refused it
\* otherwise, which the page ignores.
BeginRead(kind) ==
  /\ session /\ Cardinality({r \in reads : r.kind = kind}) < MaxReads
  /\ reads' = reads \cup {[kind |-> kind, db |-> dsn, answer |-> "pending"]}
  /\ UNCHANGED <<sessionVars, dsn, databaseVars, tests, oeeViewVars, barVars>>

\* Mutant: the history is the whole table.
FoundEver(kind) == filled

\* The databases in which latest_oee_row or oee_history, with the 10 minutes
\* the page asks for, finds rows.
Found(kind) == IF kind = "row" THEN filled ELSE recent

\* Mutant: the latest row, too, answers an error status.
OutcomeRaises(r) ==
  IF r.db = None THEN "none"
  ELSE IF r.db \notin up THEN "failed"
  ELSE IF r.db \in Found(r.kind) THEN "rows" ELSE "none"

\* The latest row, or a row of nulls with an error; the history, which is
\* empty when no row is of the last minutes, or 503.
Outcome(r) ==
  IF r.db = None \/ r.db \in up \ Found(r.kind) THEN "none"
  ELSE IF r.db \in up THEN "rows"
  ELSE IF r.kind = "row" THEN "none" ELSE "failed"

\* latest_oee_row or oee_history returns or raises.
Query(r) ==
  /\ r.answer = "pending"
  /\ reads' = (reads \ {r}) \cup {[r EXCEPT !.answer = Outcome(r)]}
  /\ UNCHANGED <<sessionVars, dsn, databaseVars, tests, oeeViewVars, barVars>>

\* The server's part in a restart: the DSN is forgotten.
OeeRestarts ==
  /\ dsn' = None /\ vouched' = FALSE
  /\ tests' = {[t EXCEPT !.phase = IF @ \in TestEnded THEN @ ELSE "dead", !.last = FALSE] :
               t \in {u \in tests : u.waited}}
  /\ reads' = {r \in reads : r.answer /= "pending"}
  /\ UNCHANGED <<databaseVars, oeeViewVars, disabled, connected>>

-----------------------------------------------------------------------------
(* The page. *)

NewTest(d) == [db |-> d, phase |-> "sent", waited |-> TRUE, last |-> FALSE]

\* connectOeeDatabase: nothing but the button keeps it from running twice.
ConnectOee(d) ==
  /\ Cardinality(tests) < MaxTests
  /\ tests' = tests \cup {NewTest(d)}
  /\ disabled' = TRUE

\* The connect button, or Enter in the password field, which clicks it.
ClickConnect(d) ==
  /\ ~disabled
  /\ ConnectOee(d)
  /\ UNCHANGED <<sessionVars, dsn, databaseVars, reads, oeeViewVars, connected, vouched>>

\* The answer arrives, or the fetch rejects because the server died.
SettleTest(t) ==
  /\ t.waited /\ t.phase \in TestEnded
  /\ tests' = tests \ {t}
  /\ disabled' = FALSE
  /\ connected' = CASE t.phase = "ok" -> t.db
                    [] t.phase = "refused" -> connected
                    [] OTHER -> None
  /\ vouched' = CASE t.phase = "ok" -> t.last
                  [] t.phase = "refused" -> vouched
                  [] OTHER -> FALSE
  /\ IF t.phase = "refused" THEN ShowLogin ELSE UNCHANGED overlay
  /\ UNCHANGED <<session, dsn, databaseVars, reads, oeeViewVars>>

\* The fetch rejects while the server goes on with the request.
TestFetchFails(t) ==
  /\ t.waited
  /\ tests' = (tests \ {t}) \cup
       (IF t.phase \in TestEnded THEN {} ELSE {[t EXCEPT !.waited = FALSE]})
  /\ disabled' = FALSE /\ connected' = None /\ vouched' = FALSE
  /\ UNCHANGED <<sessionVars, dsn, databaseVars, reads, oeeViewVars>>

\* pollOee or pollOeeHistory, answered.
ShowRead(r) ==
  /\ r.answer /= "pending"
  /\ reads' = reads \ {r}
  /\ LET figures == IF r.answer = "rows" THEN r.db ELSE None
     IN  /\ tiles' = IF r.kind = "row" /\ r.answer /= "failed" THEN figures ELSE tiles
         /\ chart' = IF r.kind = "trend" /\ r.answer /= "failed" THEN figures ELSE chart
  /\ UNCHANGED <<sessionVars, dsn, databaseVars, tests, barVars>>

\* An answer that is lost on the way is ignored.
LoseRead(r) ==
  /\ r.answer /= "pending"
  /\ reads' = reads \ {r}
  /\ UNCHANGED <<sessionVars, dsn, databaseVars, tests, oeeViewVars, barVars>>

\* The page's part in a load: what it waited for is abandoned, and with a
\* connection in storage, which all tabs share, it connects.
OeeLoads ==
  LET Left == {[t EXCEPT !.waited = FALSE] : t \in {u \in tests : u.phase \notin TestEnded}}
  IN  /\ tiles' = None /\ chart' = None /\ reads' = {}
      /\ connected' = None /\ vouched' = FALSE
      /\ \/ tests' = Left /\ disabled' = FALSE
         \/ /\ Cardinality(Left) < MaxTests
            /\ \E d \in Databases : tests' = Left \cup {NewTest(d)}
            /\ disabled' = TRUE
      /\ UNCHANGED <<dsn, databaseVars>>

\* loginSubmit connects again to what is stored, whatever the button says.
OeeLogsIn ==
  /\ \/ UNCHANGED <<tests, disabled>>
     \/ \E d \in Databases : ConnectOee(d)
  /\ UNCHANGED <<dsn, databaseVars, reads, oeeViewVars, connected, vouched>>

OeeStep ==
  \/ \E d \in Databases : DatabaseFlips(d) \/ RowWritten(d) \/ RowsAge(d) \/ OtherConnects(d)
  \/ \E t \in tests :
       AdmitTest(t) \/ Test(t) \/ Store(t) \/ SettleTest(t) \/ TestFetchFails(t)
  \/ \E kind \in {"row", "trend"} : BeginRead(kind)
  \/ \E r \in reads : Query(r) \/ ShowRead(r) \/ LoseRead(r)
  \/ \E d \in Databases : ClickConnect(d)

Reads ==
  [kind : {"row", "trend"}, db : Databases \cup {None},
   answer : {"pending", "none", "rows", "failed"}]
Tests ==
  [db : Databases, phase : {"sent", "testing", "tested"} \cup TestEnded,
   waited : BOOLEAN, last : BOOLEAN]

\* A page keeps polling and the server answers; not every answer is lost on
\* its way.
OeeFairness ==
  \A kind \in {"row", "trend"} :
    /\ WF_oeeVars(BeginRead(kind))
    /\ WF_oeeVars(\E r \in reads : r.kind = kind /\ Query(r))
    /\ SF_oeeVars(\E r \in reads : r.kind = kind /\ ShowRead(r))
-----------------------------------------------------------------------------
OeeType ==
  /\ dsn \in Databases \cup {None}
  /\ up \subseteq Databases /\ filled \subseteq Databases /\ recent \subseteq filled
  /\ tests \subseteq Tests /\ reads \subseteq Reads
  /\ tiles \in Databases \cup {None} /\ chart \in Databases \cup {None}
  /\ disabled \in BOOLEAN /\ vouched \in BOOLEAN
  /\ connected \in Databases \cup {None}

\* "connected to d" is true, also while tests that the page has given up are
\* under way, until another test, of this page or of another client, is stored
\* after the one it is about, or the server is restarted (index.html:674-703,
\* main.py:183-198).
OeeClaimIsTrue ==
  connected /= None /\ vouched => dsn = connected
=============================================================================
