------------------------------ MODULE AgentFiles -----------------------------
(***************************************************************************)
(* Files and deletions in aeon-agent (main.rs, engine.rs, state.rs).  A    *)
(* watcher queues what happens in the watched directories; the main loop   *)
(* keeps file_index from it, tells the other devices about new files and   *)
(* deletions, and keeps a tombstone of each deletion.  A device that hears *)
(* of a deletion removes its own file of that path, unless it is newer;    *)
(* its watcher sees the removal like one of the user's.                    *)
(*                                                                         *)
(* Contents travel as AgentSync says and are not written to files.  Paths  *)
(* lie under the watched root of every device, and the clocks agree.       *)
(***************************************************************************)
EXTENDS Naturals, FiniteSets, Sequences, SequencesExt

CONSTANTS
  Devices,
  Paths,
  Cids,
  MaxTombs,     \* tombstones kept (10 000 in the code)
  Drained,      \* tombstones dropped when there are more (2 000 in the code)
  MaxTime,      \* bound: the wall clock stops here
  MaxUser,      \* bound: files the users write and delete
  MaxRestarts   \* bound: restarts of the agents

ASSUME FilesAssumption ==
  /\ MaxTombs \in Nat \ {0} /\ Drained \in 1..(MaxTombs + 1)
  /\ MaxTime \in Nat \ {0} /\ MaxUser \in Nat /\ MaxRestarts \in Nat

VARIABLES
  now,
  file,      \* per device: the files in its directory
  events,    \* per device: the watcher's queue
  index,     \* per device: the main loop's file_index
  records,   \* per device: file_records of agent_state.json
  tombs,     \* per device: tombstones of agent_state.json
  wire,      \* per pair of devices: messages on their way
  user,      \* files written and deleted by the users so far
  restarts,  \* per device: restarts so far
  added,     \* history, per device: the last MaxTombs tombstones it was given
  heard,     \* history, per device: the tombstones it got from others
  deleted    \* history: when a user deleted a path anywhere

memoryVars == <<index, events>>
stateVars == <<records, tombs, added, heard>>
vars == <<now, file, memoryVars, stateVars, wire, user, restarts, deleted>>

-----------------------------------------------------------------------------
(* Partial functions from paths, as the code's maps are.                    *)

Set(map, p, v) == [q \in DOMAIN map \cup {p} |-> IF q = p THEN v ELSE map[q]]
Unset(map, p) == [q \in DOMAIN map \ {p} |-> map[q]]
NoMap == [p \in {} |-> 0]

Ev(kind, p) == [kind |-> kind, path |-> p]

Tomb(p, c) == [path |-> p, cid |-> c, at |-> now]

\* The same record stands for Deleted and, with the time of the file, for FileIngest.
Msg(kind, p, c) == [kind |-> kind, tomb |-> Tomb(p, c)]

\* Device d sends m to all others.
SendAll(d, m) ==
  wire' = [w \in Devices \X Devices |->
             IF w[1] = d /\ w[2] # d THEN Append(wire[w], m) ELSE wire[w]]

-----------------------------------------------------------------------------
(* Tombstones.                                                              *)

\* The history of what was given to add_tombstone.
Lately(list, t) == IF Len(list) < MaxTombs THEN Append(list, t) ELSE Append(Tail(list), t)

\* add_tombstone: the oldest are dropped when there are too many.
AddTombstone(list, t) ==
  IF Len(list) < MaxTombs THEN Append(list, t)
  ELSE SubSeq(Append(list, t), Drained + 1, MaxTombs + 1)

BugOlderKept(files, t) ==  \* the comparison turned around
  {p \in DOMAIN files : p = t.path /\ files[p].mtime > t.at}
\* apply_tombstone: the file goes unless it is newer than the deletion.
Removed(files, t) == {p \in DOMAIN files : p = t.path /\ files[p].mtime <= t.at}

RemovedByAll(files, list) == UNION {Removed(files, t) : t \in Range(list)}

\* tombstone_map: the content that each deleted path had last.
TombstoneMap(list) ==
  [p \in {t.path : t \in Range(list)} |->
     list[CHOOSE n \in DOMAIN list :
            /\ list[n].path = p
            /\ \A m \in DOMAIN list : list[m].path = p => m <= n].cid]

-----------------------------------------------------------------------------
Init ==
  /\ now = 1 /\ user = 0 /\ restarts = [d \in Devices |-> 0]
  /\ file = [d \in Devices |-> NoMap] /\ index = [d \in Devices |-> NoMap]
  /\ records = [d \in Devices |-> NoMap]
  /\ events = [d \in Devices |-> <<>>]
  /\ tombs = [d \in Devices |-> <<>>] /\ added = [d \in Devices |-> <<>>]
  /\ heard = [d \in Devices |-> {}]
  /\ wire = [w \in Devices \X Devices |-> <<>>]
  /\ deleted = {}

Tick ==
  /\ now < MaxTime /\ now' = now + 1
  /\ UNCHANGED <<file, memoryVars, stateVars, wire, user, restarts, deleted>>

-----------------------------------------------------------------------------
(* The users.                                                               *)

UserWrite(d, p, c) ==
  /\ user < MaxUser /\ user' = user + 1
  /\ file' = [file EXCEPT ![d] = Set(@, p, [cid |-> c, mtime |-> now])]
  /\ events' = [events EXCEPT ![d] = Append(@, Ev("Created", p))]
  /\ UNCHANGED <<now, index, stateVars, wire, restarts, deleted>>

UserDelete(d, p) ==
  /\ p \in DOMAIN file[d]
  /\ user < MaxUser /\ user' = user + 1
  /\ file' = [file EXCEPT ![d] = Unset(@, p)]
  /\ events' = [events EXCEPT ![d] = Append(@, Ev("Deleted", p))]
  /\ deleted' = deleted \cup {<<p, now>>}
  /\ UNCHANGED <<now, index, stateVars, wire, restarts>>

-----------------------------------------------------------------------------
(* The main loop.                                                           *)

NextEvent(d, kind, p) == events[d] # <<>> /\ Head(events[d]) = Ev(kind, p)

Indexed(d, p) == p \in DOMAIN index[d] /\ index[d][p] = file[d][p].cid

\* A file was written: unless its present content is indexed, it is entered and
\* announced.  A file that is gone meanwhile is passed over.
FileCreated(d, p) ==
  LET known == p \in DOMAIN file[d] => Indexed(d, p)
      c == file[d][p].cid
  IN /\ NextEvent(d, "Created", p)
     /\ events' = [events EXCEPT ![d] = Tail(@)]
     /\ \/ known /\ UNCHANGED <<index, records, wire>>
        \/ /\ ~known
           /\ index' = [index EXCEPT ![d] = Set(@, p, c)]
           /\ records' = [records EXCEPT ![d] = Set(@, p, [cid |-> c, by |-> d])]
           /\ SendAll(d, Msg("FileIngest", p, c))
     /\ UNCHANGED <<now, file, tombs, added, heard, user, restarts, deleted>>

BugIndexKept(d, p) ==  \* get for remove
  LET t == Tomb(p, index[d][p]) IN
  /\ NextEvent(d, "Deleted", p)
  /\ events' = [events EXCEPT ![d] = Tail(@)]
  /\ \/ p \notin DOMAIN index[d] /\ UNCHANGED <<records, tombs, added, wire>>
     \/ /\ p \in DOMAIN index[d]
        /\ records' = [records EXCEPT ![d] = Unset(@, p)]
        /\ tombs' = [tombs EXCEPT ![d] = AddTombstone(@, t)]
        /\ added' = [added EXCEPT ![d] = Lately(@, t)]
        /\ SendAll(d, Msg("Deleted", p, t.cid))
  /\ UNCHANGED <<now, file, index, heard, user, restarts, deleted>>
\* A file was removed: if it is indexed, its entry goes, and a tombstone of this
\* moment is kept and announced.
FileDeleted(d, p) ==
  LET t == Tomb(p, index[d][p]) IN
  /\ NextEvent(d, "Deleted", p)
  /\ events' = [events EXCEPT ![d] = Tail(@)]
  /\ \/ p \notin DOMAIN index[d] /\ UNCHANGED <<index, records, tombs, added, wire>>
     \/ /\ p \in DOMAIN index[d]
        /\ index' = [index EXCEPT ![d] = Unset(@, p)]
        /\ records' = [records EXCEPT ![d] = Unset(@, p)]
        /\ tombs' = [tombs EXCEPT ![d] = AddTombstone(@, t)]
        /\ added' = [added EXCEPT ![d] = Lately(@, t)]
        /\ SendAll(d, Msg("Deleted", p, t.cid))
  /\ UNCHANGED <<now, file, heard, user, restarts, deleted>>

-----------------------------------------------------------------------------
(* Messages from other devices.                                             *)

\* Device d removes files of its own; its watcher notices.
RemoveFiles(d, paths) ==
  /\ file' = [file EXCEPT ![d] = [p \in DOMAIN @ \ paths |-> @[p]]]
  /\ events' = [events EXCEPT ![d] =
                  @ \o [n \in 1..Cardinality(paths) |-> Ev("Deleted", SetToSeq(paths)[n])]]

FileIngest(a, d) ==
  LET w == <<a, d>>
      t == Head(wire[w]).tomb
  IN /\ wire[w] # <<>> /\ Head(wire[w]).kind = "FileIngest"
     /\ wire' = [wire EXCEPT ![w] = Tail(@)]
     /\ records' = [records EXCEPT ![d] = Set(@, t.path, [cid |-> t.cid, by |-> a])]
     /\ UNCHANGED <<now, file, memoryVars, tombs, added, heard, user, restarts, deleted>>

BugForward(a, d) ==  \* the message passed on to all others
  LET w == <<a, d>>
      t == Head(wire[w]).tomb
  IN /\ wire[w] # <<>> /\ Head(wire[w]).kind = "Deleted"
     /\ wire' = [v \in Devices \X Devices |->
                   IF v = w THEN Tail(wire[v])
                   ELSE IF v[1] = d /\ v[2] # d THEN Append(wire[v], Head(wire[w])) ELSE wire[v]]
     /\ tombs' = [tombs EXCEPT ![d] = AddTombstone(@, t)]
     /\ added' = [added EXCEPT ![d] = Lately(@, t)]
     /\ heard' = [heard EXCEPT ![d] = @ \cup {t}]
     /\ RemoveFiles(d, Removed(file[d], t))
     /\ UNCHANGED <<now, index, records, user, restarts, deleted>>
Deleted(a, d) ==
  LET w == <<a, d>>
      t == Head(wire[w]).tomb
  IN /\ wire[w] # <<>> /\ Head(wire[w]).kind = "Deleted"
     /\ wire' = [wire EXCEPT ![w] = Tail(@)]
     /\ tombs' = [tombs EXCEPT ![d] = AddTombstone(@, t)]
     /\ added' = [added EXCEPT ![d] = Lately(@, t)]
     /\ heard' = [heard EXCEPT ![d] = @ \cup {t}]
     /\ RemoveFiles(d, Removed(file[d], t))
     /\ UNCHANGED <<now, index, records, user, restarts, deleted>>

\* Device d stops and starts again: its queue and the messages on its connections
\* are gone, the index starts from the tombstones, and these are applied again.
\* A torn agent_state.json counts as an empty one.
Restart(d, torn) ==
  LET kept == IF torn THEN <<>> ELSE tombs[d]
      gone == RemovedByAll(file[d], kept)
  IN /\ restarts[d] < MaxRestarts
     /\ restarts' = [restarts EXCEPT ![d] = @ + 1]
     /\ tombs' = [tombs EXCEPT ![d] = kept]
     /\ records' = IF torn THEN [records EXCEPT ![d] = NoMap] ELSE records
     /\ added' = [added EXCEPT ![d] = kept]
     /\ index' = [index EXCEPT ![d] = TombstoneMap(kept)]
     /\ file' = [file EXCEPT ![d] = [p \in DOMAIN @ \ gone |-> @[p]]]
     /\ events' = [events EXCEPT ![d] =
                     [n \in 1..Cardinality(gone) |-> Ev("Deleted", SetToSeq(gone)[n])]]
     /\ wire' = [w \in Devices \X Devices |-> IF d \in {w[1], w[2]} THEN <<>> ELSE wire[w]]
     /\ UNCHANGED <<now, heard, user, deleted>>

-----------------------------------------------------------------------------
Program(d) ==
  \/ \E p \in Paths : FileCreated(d, p) \/ FileDeleted(d, p)
  \/ \E a \in Devices : FileIngest(a, d) \/ Deleted(a, d)

User(d) ==
  \E p \in Paths : UserDelete(d, p) \/ \E c \in Cids : UserWrite(d, p, c)

Next ==
  \/ Tick
  \/ \E d \in Devices : Program(d) \/ User(d) \/ \E torn \in BOOLEAN : Restart(d, torn)

Spec == Init /\ [][Next]_vars

\* The main loop and the handlers keep running.
FairSpec == Spec /\ \A d \in Devices : WF_vars(Program(d))

-----------------------------------------------------------------------------
(* Properties.                                                              *)

\* Once its queue is empty, file_index holds exactly the device's files with
\* their present contents, however writes, deletions and removals by others were
\* interleaved with it, until the agent is restarted.
IndexFollowsFiles ==
  \A d \in Devices :
    events[d] = <<>> /\ restarts[d] = 0 =>
      index[d] = [p \in DOMAIN file[d] |-> file[d][p].cid]

\* No device has a file that is older than a deletion it was told of: files
\* come back only when they are written again.
DeletionsApplied ==
  \A d \in Devices : \A t \in heard[d] :
    t.path \in DOMAIN file[d] => file[d][t.path].mtime >= t.at

\* However many there are, the latest tombstones are kept.
LatestTombstonesKept ==
  \A d \in Devices :
    LET kept == MaxTombs + 1 - Drained
        n == IF Len(added[d]) < kept THEN Len(added[d]) ELSE kept
    IN \A k \in 0..(n - 1) :
         tombs[d][Len(tombs[d]) - k] = added[d][Len(added[d]) - k]

\* Deletions are applied, and the latest are kept for the next start.
DeletionsKept == DeletionsApplied /\ LatestTombstonesKept

\* A removal that was announced makes the others announce it again, each with a
\* later time; this ends: the devices fall silent when their users do.
EchoesEnd ==
  <>[](\A d \in Devices : events[d] = <<>> /\ \A a \in Devices : wire[<<a, d>>] = <<>>)

\* engine.rs:238: "conflict rule: local newer content wins".  A file that the
\* agent removes was deleted by a user somewhere at or after its last change.
NewerContentWins ==
  [][\A d \in Devices : \A p \in DOMAIN file[d] :
       p \notin DOMAIN file'[d] /\ user' = user =>
         \E del \in deleted : del[1] = p /\ del[2] >= file[d][p].mtime]_vars
=============================================================================
