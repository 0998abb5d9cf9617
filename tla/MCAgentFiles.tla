---------------------------- MODULE MCAgentFiles -----------------------------
(* Small instances of AgentFiles for TLC. *)
EXTENDS AgentFiles

CONSTANTS laptop, desktop, note, c1, c2

MCDevices == {laptop, desktop}
MCPaths == {note}
MCCids == {c1, c2}
=============================================================================
