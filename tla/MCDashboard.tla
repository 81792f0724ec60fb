----------------------------- MODULE MCDashboard ----------------------------
(***************************************************************************)
(* Instance of Dashboard for TLC.  The parts of the page meet only in the  *)
(* session, the source and the DSN, which others may change at any time.   *)
(* So a behaviour exercises one part, the focus, and the rest is idle: a   *)
(* bound, as the product of the parts is out of reach.                     *)
(***************************************************************************)
EXTENDS Dashboard

CONSTANTS Broker1, Broker2, Db1, Db2

VARIABLE focus

LineFoci == {"lamps", "controls"}
Kinds == {"row", "trend"}

MCInit ==
  /\ Init
  /\ focus \in LineFoci \cup Kinds \cup {"bar"}
  /\ focus \in LineFoci => up = {}
  /\ focus \notin Kinds => filled = {}

MCNext ==
  /\ Next
  /\ focus \in LineFoci => UNCHANGED oeeVars
  /\ focus \notin LineFoci => UNCHANGED lineVars
  /\ focus = "lamps" => /\ Cardinality(switches') <= 1
                        /\ \A s \in switches' : ~s.waited /\ s.to /= Broker2
                        /\ UNCHANGED <<switching, claim>>
  /\ focus = "controls" => /\ reception' = "none" /\ Cardinality(answers') <= 1
                           /\ answers /= {} => answers' = {}
  /\ focus \in Kinds => /\ \A r \in reads' : r.kind = focus
                       /\ UNCHANGED <<sessionVars, tests, barVars>>
  /\ focus = "bar" => UNCHANGED <<reads, filled, recent>>
  /\ UNCHANGED focus

\* LineFairness and OeeFairness, of the part that is not idle.
MCFairness ==
  /\ WF_lineVars(focus = "lamps" /\ AnswerPoll)
  /\ SF_lineVars(focus = "lamps" /\ \E a \in answers : Render(a))
  /\ \A kind \in Kinds :
       /\ WF_oeeVars(focus = kind /\ BeginRead(kind))
       /\ WF_oeeVars(focus = kind /\ \E r \in reads : Query(r))
       /\ SF_oeeVars(focus = kind /\ \E r \in reads : ShowRead(r))

MCSpec == MCInit /\ [][MCNext]_<<vars, focus>> /\ MCFairness

\* The liveness of Dashboard, of the panel that is not idle (index.html:462-508,
\* 585-638; main.py:101-105, 201-229).
MCPanelFollows == focus = "lamps" => PanelFollows

MCFiguresFollow ==
  (focus = "row" => TilesFollow) /\ (focus = "trend" => TrendFollows)

MCLoggedOutIsShown == focus = "lamps" => LoggedOutIsShown
=============================================================================
