----------------------------- MODULE LineSource -----------------------------
(***************************************************************************)
(* What app/source_manager.py relies on in a data source, PlcPoller or     *)
(* MqttLineSource alike: its thread reports rising edges of the line, one  *)
(* event for an edge, none once the source has ended; and a source that    *)
(* was asked to stop finishes what it has begun and begins nothing more.   *)
(***************************************************************************)
EXTENDS Naturals

CONSTANT Tags          \* the tags of EVENT_EDGES

VARIABLES rises,       \* rising edges of each tag at the line
          counted,     \* on_event calls per tag
          asked,       \* stop was called
          thread       \* "idle", "busy" or "over"

lineVars == <<rises, counted, asked, thread>>

LineInit ==
  /\ rises = [t \in Tags |-> 0] /\ counted = [t \in Tags |-> 0]
  /\ asked = FALSE /\ thread = "idle"

Rise(t) ==
  /\ rises' = [rises EXCEPT ![t] = @ + 1]
  /\ UNCHANGED <<counted, asked, thread>>

\* An iteration of the poll loop, or a message, that may have events.
Begin ==
  /\ thread = "idle" /\ ~asked
  /\ thread' = "busy"
  /\ UNCHANGED <<rises, counted, asked>>

\* An event stands for an edge that no event before it stood for.
Report(t) ==
  /\ thread = "busy" /\ counted[t] < rises[t]
  /\ counted' = [counted EXCEPT ![t] = @ + 1]
  /\ thread' \in {"busy", "idle"}
  /\ UNCHANGED <<rises, asked>>

Finish ==
  /\ thread = "busy"
  /\ thread' = "idle"
  /\ UNCHANGED <<rises, counted, asked>>

\* stop sets a flag that the thread sees between two iterations ...
Ask ==
  /\ ~asked
  /\ asked' = TRUE
  /\ UNCHANGED <<rises, counted, thread>>

\* ... or ends the thread itself, and waits until it is idle.
End ==
  /\ thread = "idle"
  /\ thread' = "over" /\ asked' = TRUE
  /\ UNCHANGED <<rises, counted>>

LineNext ==
  \/ \E t \in Tags : Rise(t) \/ Report(t)
  \/ Begin \/ Finish \/ Ask \/ End

LineSpec == LineInit /\ [][LineNext]_lineVars
=============================================================================
