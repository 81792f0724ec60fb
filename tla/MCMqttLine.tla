----------------------------- MODULE MCMqttLine -----------------------------
(* Instance of MqttLine for TLC: ticks of 500 ms, one image per second. *)
EXTENDS MqttLine

CONSTANTS P3, B4

\* No object, or one without the label of B4.
Partial == {[labels |-> {}, on |-> {}], [labels |-> {P3}, on |-> {P3}]}

FewRises == [t \in Tags |-> IF t = P3 THEN 2 ELSE 1]
=============================================================================
