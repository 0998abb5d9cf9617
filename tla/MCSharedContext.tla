--------------------------- MODULE MCSharedContext ---------------------------
(* A small instance of SharedContext for TLC: three consoles, each with a
   session of its own, and a console opened again; while there is a third edit the
   last console keeps out of it and none is opened again. *)
EXTENDS SharedContext

MCConsoles == {1, 2, 3}
MCOwnSession == [r \in MCConsoles |-> r]

\* A register, and a call stack entry that the snapshot does not have.
MCSlots == {"reg", "frame"}
MCSameBase == [r \in MCConsoles |-> [s \in {"reg"} |-> 0]]

MCThirdEdit == Cardinality(edits) > 2 => Known(3) = {} /\ restarts = 0
=============================================================================
