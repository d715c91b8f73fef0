------------------------------ MODULE MCGpib488 ------------------------------
(* Instances of Gpib488 for TLC. *)
EXTENDS Gpib488

CONSTANTS d1, d2, c

MCDevices == {d1, d2}

\* One device without and one with a secondary address.
MCPad == [m \in {d1, d2, c} |-> CASE m = d1 -> 1 [] m = d2 -> 2 [] OTHER -> 0]
MCSad == [m \in {d1, d2, c} |-> IF m = d2 THEN 3 ELSE -1]

\* The interface has a secondary address of its own.
MCOwnSad == [m \in {d1, d2, c} |-> IF m = c THEN 5 ELSE -1]
==============================================================================
