------------------------------- MODULE EditLog -------------------------------
(***************************************************************************)
(* What a shared context promises: a growing set of edits, of which every  *)
(* replica knows a part that is closed under causality.  An edit's stamp   *)
(* is above the stamps of all edits its author knew, and no two edits have *)
(* the same stamp, so the replicas that know the same edits agree on their *)
(* order.                                                                  *)
(***************************************************************************)
EXTENDS Naturals

CONSTANTS
  Nodes,  \* the replicas
  Stamp   \* clock and author of an edit

VARIABLES
  edits,  \* the stamps of all edits made
  known,  \* per replica: the edits it knows
  before  \* the edits that the author of an edit knew when making it

logVars == <<edits, known, before>>

LogInit ==
  /\ edits = {}
  /\ known = [n \in Nodes |-> {}]
  /\ before = {}

\* Replica n makes the edit s.
Make(n, s) ==
  /\ s \notin edits
  /\ \A e \in known[n] : e.clock < s.clock
  /\ edits' = edits \cup {s}
  /\ known' = [known EXCEPT ![n] = @ \cup {s}]
  /\ before' = before \cup {<<e, s>> : e \in known[n]}

\* Replica n learns the edits of S, and with an edit everything before it.
Learn(n, S) ==
  /\ S \subseteq edits
  /\ known' = [known EXCEPT ![n] = @ \cup S]
  /\ \A pair \in before : pair[2] \in known'[n] => pair[1] \in known'[n]
  /\ UNCHANGED <<edits, before>>

LogNext ==
  \E n \in Nodes : \/ \E s \in Stamp : Make(n, s)
                   \/ \E S \in SUBSET edits : Learn(n, S)

LogSpec == LogInit /\ [][LogNext]_logVars
=============================================================================
