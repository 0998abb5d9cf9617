----------------------------- MODULE MCAgentSync -----------------------------
(* Small instances of AgentSync for TLC. *)
EXTENDS AgentSync

CONSTANTS laptop, desktop, c1, c2

MCDevices == {laptop, desktop}
MCCids == {c1, c2}
\* The laptop has the desktop in its peer list.
MCDials == {<<laptop, desktop>>}
\* The laptop has one content when it is first connected.
MCStored == [d \in MCDevices |-> IF d = laptop THEN {c1} ELSE {}]
=============================================================================
