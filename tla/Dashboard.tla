------------------------------ MODULE Dashboard -----------------------------
(***************************************************************************)
(* One page and the dashboard server: both panels behind one session.      *)
(***************************************************************************)
EXTENDS LinePanel, OeePanel

vars == <<sessionVars, lineVars, oeeVars>>

Init == SessionInit /\ LineInit /\ OeeInit

\* loginSubmit, after a password that matches.
Login == LoginSucceeds /\ LineLogsIn /\ OeeLogsIn

Logout == LogOut /\ UNCHANGED <<lineVars, oeeVars>>

SessionExpires == Expire /\ UNCHANGED <<lineVars, oeeVars>>

\* The page is opened or loaded again.
Load ==
  /\ LineLoads /\ OeeLoads
  /\ overlay' = FALSE /\ UNCHANGED session

\* The server process ends and starts again: nothing it holds is persisted,
\* and cookies stay valid.
Restart == LineRestarts /\ OeeRestarts /\ UNCHANGED sessionVars

Next ==
  \/ LineStep /\ UNCHANGED oeeVars
  \/ OeeStep /\ UNCHANGED lineVars
  \/ Login \/ Logout \/ SessionExpires \/ Load \/ Restart

Spec == Init /\ [][Next]_vars /\ LineFairness /\ OeeFairness
-----------------------------------------------------------------------------
\* Type invariant of the page and the server's part in it.
TypeOK == SessionType /\ LineType /\ OeeType

\* A status line that names a connection tells the truth, whatever the page
\* has given up is still under way, until a request other than the one it is
\* about takes effect, be it of this page and given up, or a restart
\* (index.html:402-417, 455, 674-703; main.py:183-198; source_manager.py:128-141).
ClaimsAreTrue == LineClaimIsTrue /\ OeeClaimIsTrue

\* The page is not loaded again for ever.
StaysOpen == <>[][~Load]_vars

\* A session that has ended is noticed: the overlay is shown and stays
\* (index.html:496-502, main.py:101-105).
LoggedOutIsShown == StaysOpen => (<>[](~session) => <>[]overlay)

\* The page settles on the source that stays active: its values, or the
\* banner over what it has (index.html:462-508).
PanelFollows ==
  StaysOpen /\ <>[]session /\ <>[][FALSE]_serverVars =>
    <>[](/\ shown = source
         /\ reception /= "none" => lamps = source
         /\ reception /= "live" => banner)

DatabaseRests ==
  StaysOpen /\ <>[][~Restart]_vars /\ <>[]session /\ <>[][FALSE]_<<dsn, databaseVars>>

FiguresOf(found) == IF dsn \in up \cap found THEN dsn ELSE None

\* Once the connection and its database stop changing, the tiles show its
\* latest row, or dashes when there is none, never that of another database
\* or of a time before it went down (main.py:201-216, db.py:55-62,
\* index.html:585-604; oee-monitoring "Connected database unreachable").
TilesFollow == DatabaseRests => <>[](tiles = FiguresOf(filled))

\* The trend, while it can be read, shows the rows of the last 10 minutes, so
\* that of an idle line the tiles are filled and the trend is empty
\* (main.py:218-229, db.py:65-76, index.html:624-638).
TrendFollows ==
  DatabaseRests => <>[](dsn \in up \cup {None} => chart = FiguresOf(recent))

\* Tiles and trend settle on what the database has (index.html:585-638).
FiguresFollow == TilesFollow /\ TrendFollows
=============================================================================
