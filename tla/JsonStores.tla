------------------------------- MODULE JsonStores -------------------------------
(***************************************************************************)
(* A small file that one process keeps in memory and rewrites whole on     *)
(* every change: the operation context and the account profiles of         *)
(* aeon-sync, the account registry of aeon-vm, and the identity, which is  *)
(* written once.  A write empties the file first; they differ in what they *)
(* make of a file that a write or a crash left unfinished.                 *)
(***************************************************************************)
EXTENDS Integers

CONSTANTS
  Keys,    \* fields, sessions or accounts, by their order in the file
  Values,  \* what one of them can be set to
  MaxUpdates, MaxFaults  \* bounds: updates; failed writes, crashes and restarts

ASSUME JsonAssumption ==
  /\ Keys # {} /\ Keys \subseteq Nat /\ -1 \notin Values
  /\ {MaxUpdates, MaxFaults} \subseteq Nat

VARIABLES
  kind,    \* "context", "profiles", "registry" or "identity"
  disk,    \* how far the file is written, and what it holds
  doc,     \* what the process holds
  at,      \* "down", "up", or "filling" the file
  updates, faults, \* counted against their bounds
  tried,   \* history: the last value given to each key since what was lost
  unsaved  \* history: the last update was not written

jsonVars == <<kind, disk, doc, at, updates, faults, tried, unsaved>>

None == -1
Nothing == [entries |-> [k \in Keys |-> None], default |-> None]
Given == {k \in Keys : doc.entries[k] # None}
Lowest(set) == CHOOSE k \in set : \A other \in set : k <= other

JsonInit ==
  /\ kind \in {"context", "profiles", "registry", "identity"}
  /\ disk = [how |-> "absent", doc |-> Nothing] /\ doc = Nothing /\ at = "down"
  /\ updates = 0 /\ faults = 0 /\ tried = Nothing.entries /\ unsaved = FALSE

\* Whether the program starts with the file as it is, and with what.
Opens == disk.how \in {"absent", "whole"} \/ kind \in {"context", "profiles"}
                                         \/ (kind = "registry" /\ disk.how = "empty")
Read == IF disk.how = "whole" THEN disk.doc ELSE Nothing
\* AccountRegistry::open forgets a default that is no account.
Normal(content) ==
  IF content.default # None => content.entries[content.default] # None THEN content
  ELSE [content EXCEPT !.default = None]

\* new, open, load_or_create with an identity that is there.
StartUp ==
  /\ at = "down" /\ Opens /\ ~(kind = "identity" /\ disk.how = "absent")
  /\ at' = "up" /\ doc' = Normal(Read) /\ tried' = Read.entries /\ unsaved' = FALSE
  /\ UNCHANGED <<kind, disk, updates, faults>>

Saving == at' = "filling" /\ disk' = [disk EXCEPT !.how = "empty"]
\* load_or_create generates the identity that is missing.
NewIdentity(v) ==
  /\ at = "down" /\ kind = "identity" /\ disk.how = "absent" /\ Saving
  /\ doc' = [Nothing EXCEPT !.entries = [k \in Keys |-> v]] /\ tried' = doc'.entries
  /\ UNCHANGED <<kind, updates, faults, unsaved>>

\* The file is opened, or it cannot be: memory has the change either way.
Change(content) ==
  /\ at = "up" /\ updates < MaxUpdates /\ updates' = updates + 1 /\ doc' = content
  /\ \/ Saving /\ UNCHANGED <<faults, unsaved>>
     \/ faults < MaxFaults /\ faults' = faults + 1 /\ unsaved' = TRUE /\ UNCHANGED <<at, disk>>
  /\ UNCHANGED kind

\* set_task, set_clipboard, set_scratch, upsert_ai_session, upsert.
BugOthersGone(k, v) == [entries |-> [Nothing.entries EXCEPT ![k] = v], default |-> doc.default]
Updated(k, v) ==
  [entries |-> [doc.entries EXCEPT ![k] = v],
   default |-> IF kind = "registry" /\ doc.default = None THEN Lowest(Given \cup {k})
               ELSE doc.default]
Update(k, v) ==
  /\ kind # "identity" /\ Change(Updated(k, v))
  /\ tried' = [tried EXCEPT ![k] = v]
SetDefault(k) ==
  kind = "registry" /\ k \in Given /\ Change([doc EXCEPT !.default = k]) /\ UNCHANGED tried

\* The rest of the write, which may fail half-way.
Fill ==
  /\ at = "filling" /\ at' = "up" /\ disk' = [how |-> "whole", doc |-> doc] /\ unsaved' = FALSE
  /\ UNCHANGED <<kind, doc, updates, faults, tried>>
FillFails ==
  /\ at = "filling" /\ faults < MaxFaults /\ faults' = faults + 1
  /\ at' = IF kind = "identity" THEN "down" ELSE "up"
  /\ disk' = [disk EXCEPT !.how = "part"] /\ unsaved' = TRUE
  /\ UNCHANGED <<kind, doc, updates, tried>>
GoDown ==
  /\ at # "down" /\ faults < MaxFaults /\ faults' = faults + 1 /\ at' = "down"
  /\ \/ UNCHANGED disk
     \/ at = "filling" /\ disk' = [disk EXCEPT !.how = "part"]
  /\ unsaved' = (unsaved \/ at = "filling") /\ UNCHANGED <<kind, doc, updates, tried>>

JsonNext ==
  \/ StartUp \/ Fill \/ FillFails \/ GoDown
  \/ \E v \in Values : NewIdentity(v) \/ \E k \in Keys : Update(k, v)
  \/ \E k \in Keys : SetDefault(k)

JsonSpec == JsonInit /\ [][JsonNext]_jsonVars

-----------------------------------------------------------------------------
\* After an update that succeeded the file holds the last value given to every
\* key, those of updates that failed before it included, for as long as no write
\* fails and no crash cuts one short; a registry with accounts has one of them
\* as its default.
UpdatesKept ==
  at # "filling" /\ ~unsaved =>
    /\ \A k \in Keys : tried[k] # None => disk.how = "whole" /\ disk.doc.entries[k] = tried[k]
    /\ at = "up" /\ kind = "registry" /\ Given # {} => disk.doc.default \in Given

=============================================================================
