------------------------------- MODULE Session ------------------------------
(***************************************************************************)
(* The session gate: app/auth.py, the middleware of app/main.py and the    *)
(* login overlay of the page.  The cookie is all there is of a session, so *)
(* its state is whether the browser holds one that verifies.               *)
(***************************************************************************)

VARIABLES session,   \* the browser's cookie verifies
          overlay    \* the page shows the login overlay

sessionVars == <<session, overlay>>

SessionInit == session \in BOOLEAN /\ overlay = FALSE

SessionType == session \in BOOLEAN /\ overlay \in BOOLEAN

ShowLogin == overlay' = TRUE

\* loginSubmit, answered.  A refused password shows the overlay again.
LoginSucceeds == overlay /\ session' = TRUE /\ overlay' = FALSE

\* The log-out button: the overlay is shown even when the request failed.
LogOut ==
  /\ session' \in {session, FALSE}
  /\ ShowLogin

\* 12 hours have passed, or the password was changed.
Expire ==
  /\ session
  /\ session' = FALSE
  /\ UNCHANGED overlay
=============================================================================
