------------------------------ MODULE SharedFolder ------------------------------
(***************************************************************************)
(* One file of the shared folder ~/AEON: the requests of aeon-sync that    *)
(* save, upload or delete it (server/files.rs), the history and the        *)
(* origin kept beside it, other programs that change it, and the monitor   *)
(* that captures what the file holds a while after each change (file.rs).  *)
(* Nothing is locked, and every write first empties the file it writes.    *)
(***************************************************************************)
EXTENDS Integers, Sequences, SequencesExt

CONSTANTS
  Requests,   \* requests that may be under way at once
  Contents,   \* what a request or another program writes to the file
  MaxRequests, MaxTroubles  \* bounds: requests begun; failures, restarts, outside changes

ASSUME FolderAssumption == {MaxRequests, MaxTroubles} \subseteq Nat

VARIABLES
  file,      \* what the file holds
  writers,   \* the requests that have the file open to write it
  history,   \* the list of its versions in .aeon-history
  meta,      \* its origin in .aeon-meta
  requests,  \* what each request does
  changes,   \* changes of the file the monitor has not been told of
  reads,     \* reads of the file the monitor has scheduled
  stored,    \* the contents captured
  begun, troubles,  \* counted against their bounds
  missed,    \* history: contents whose capture failed or was cut off
  unsure     \* history: no request has run alone since the last trouble or overlap

files == <<file, writers, history, meta>>
monitor == <<changes, reads>>
counts == <<begun, troubles>>
folderVars == <<files, requests, monitor, stored, counts, missed, unsure>>

Absent == "absent"
Empty == "empty"  \* there, with nothing in it yet
Mixed == "mixed"  \* two writes overlapped
Local == "this device"
Unknown == "unknown"
Rest == [at |-> "rest"]

\* Only a written list can be parsed.
Unread(state) == [state |-> state, list |-> <<>>]

\* read_file_meta: an unreadable origin is an unknown one, a missing one is this device.
Origin == IF meta = Absent THEN Local ELSE IF meta = Empty THEN Unknown ELSE meta

At(r, step) == requests[r].at = step
Put(r, task) == requests' = [requests EXCEPT ![r] = task]
Quiet == \A r \in Requests : At(r, "rest")
NoneAlone == [r \in Requests |-> IF At(r, "rest") THEN Rest ELSE [requests[r] EXCEPT !.alone = FALSE]]

\* A step of a request goes well or fails; the request goes on at step.
Fine(r, step) == Put(r, [requests[r] EXCEPT !.at = step]) /\ UNCHANGED <<troubles, unsure>>
Trouble == troubles < MaxTroubles /\ troubles' = troubles + 1 /\ unsure' = TRUE
Fails(r, step) == Trouble /\ requests' = [NoneAlone EXCEPT ![r].at = step]
GivesUp(r) == Trouble /\ requests' = [NoneAlone EXCEPT ![r] = Rest]

-----------------------------------------------------------------------------
FolderInit ==
  /\ file = Absent /\ writers = {} /\ history = Unread(Absent) /\ meta = Absent
  /\ requests = [r \in Requests |-> Rest]
  /\ changes = 0 /\ reads = 0 /\ stored = {} /\ begun \in 0..MaxRequests /\ troubles = 0
  /\ missed = {} /\ unsure = FALSE

Begin(r, kind, data) ==
  /\ At(r, "rest") /\ begun < MaxRequests /\ begun' = begun + 1
  /\ requests' = [NoneAlone EXCEPT ![r] =
       [at |-> IF kind = "delete" THEN "look" ELSE "open", kind |-> kind, data |-> data,
        list |-> <<>>, origin |-> Local, alone |-> Quiet, was |-> <<history.list, Origin>>]]
  /\ unsure' = (unsure \/ ~Quiet)
  /\ UNCHANGED <<files, monitor, stored, troubles, missed>>

Changed(text) == file' = text /\ changes' = changes + 1
Unchanged == UNCHANGED <<file, changes>>

\* save_file and upload_file: tokio::fs::write empties the file, then fills it.
OpenFile(r) ==
  /\ At(r, "open")
  /\ \/ Fine(r, "fill") /\ Changed(Empty) /\ writers' = writers \cup {r}
     \/ GivesUp(r) /\ Unchanged /\ UNCHANGED writers
  /\ UNCHANGED <<history, meta, reads, stored, begun, missed>>
\* A file removed meanwhile stays removed.
FillFile(r) ==
  /\ At(r, "fill") /\ writers' = writers \ {r}
  /\ \/ /\ Fine(r, "list")
        /\ IF r \notin writers THEN Unchanged
           ELSE \/ Changed(requests[r].data)
                \/ file # Empty /\ file # requests[r].data /\ Changed(Mixed)
     \/ GivesUp(r) /\ Unchanged
  /\ UNCHANGED <<history, meta, reads, stored, begun, missed>>

\* delete_file
Look(r) ==
  /\ At(r, "look") /\ Put(r, [requests[r] EXCEPT !.at = "remove", !.data = file])
  /\ UNCHANGED <<files, monitor, stored, counts, missed, unsure>>
RemoveFile(r) ==
  /\ At(r, "remove")
  /\ \/ file = Absent /\ Put(r, Rest) /\ Unchanged /\ UNCHANGED <<troubles, unsure, writers>>
     \/ file # Absent /\ Fine(r, "list") /\ Changed(Absent) /\ writers' = {}
     \/ file # Absent /\ GivesUp(r) /\ Unchanged /\ UNCHANGED writers
  /\ UNCHANGED <<history, meta, reads, stored, begun, missed>>

-----------------------------------------------------------------------------
(* append_history, write_file_meta, the capture of what was written.        *)

BugSameCid(r) == history.list # <<>> /\ Last(history.list).cid = requests[r].data
\* The last version is this one already.
SameVersion(r) ==
  history.list # <<>> /\ Last(history.list).cid = requests[r].data
                      /\ Last(history.list).deleted = (requests[r].kind = "delete")
BugLastOnly(r) == <<[version |-> Len(history.list) + 1, cid |-> requests[r].data,
                    deleted |-> requests[r].kind = "delete"]>>
WithVersion(r) ==
  Append(history.list,
         [version |-> IF history.list = <<>> THEN 1 ELSE Last(history.list).version + 1,
          cid |-> requests[r].data, deleted |-> requests[r].kind = "delete"])

AfterHistory(r) ==
  CASE requests[r].kind = "save" -> "origin" [] requests[r].kind = "upload" -> "open meta"
    [] requests[r].kind = "delete" -> "finish"

\* The whole list is read, with nothing in it when it cannot be parsed.
ReadHistory(r) ==
  /\ At(r, "list")
  /\ Put(r, IF SameVersion(r) THEN [requests[r] EXCEPT !.at = AfterHistory(r)]
            ELSE [requests[r] EXCEPT !.at = "open history", !.list = WithVersion(r)])
  /\ UNCHANGED <<files, monitor, stored, counts, missed, unsure>>
OpenHistory(r) ==
  /\ At(r, "open history")
  /\ \/ Fine(r, "fill history") /\ history' = Unread(Empty)
     \/ Fails(r, AfterHistory(r)) /\ UNCHANGED history
  /\ UNCHANGED <<file, writers, meta, monitor, stored, begun, missed>>
\* A list written meanwhile may stick out behind this one.
FillHistory(r) ==
  /\ At(r, "fill history")
  /\ \/ /\ Fine(r, AfterHistory(r))
        /\ \/ Len(history.list) <= Len(requests[r].list) /\ history.state # Mixed
              /\ history' = [state |-> "list", list |-> requests[r].list]
           \/ history.state # Empty /\ history.list # requests[r].list
              /\ history' = Unread(Mixed)
     \/ Fails(r, AfterHistory(r)) /\ UNCHANGED history
  /\ UNCHANGED <<file, writers, meta, monitor, stored, begun, missed>>

\* save_file keeps the origin; upload_file makes it this device.
ReadOrigin(r) ==
  /\ At(r, "origin") /\ Put(r, [requests[r] EXCEPT !.at = "open meta", !.origin = Origin])
  /\ UNCHANGED <<files, monitor, stored, counts, missed, unsure>>
OpenMeta(r) ==
  /\ At(r, "open meta")
  /\ \/ Fine(r, "fill meta") /\ meta' = Empty
     \/ Fails(r, "finish") /\ UNCHANGED meta
  /\ UNCHANGED <<file, writers, history, monitor, stored, begun, missed>>
FillMeta(r) ==
  /\ At(r, "fill meta")
  /\ \/ Fine(r, "finish") /\ meta' = requests[r].origin
     \/ Fails(r, "finish") /\ UNCHANGED meta
  /\ UNCHANGED <<file, writers, history, monitor, stored, begun, missed>>

\* What was written is captured; nobody is told when that fails.
Finish(r) ==
  /\ At(r, "finish") /\ Put(r, Rest)
  /\ LET data == IF requests[r].kind = "delete" THEN {} ELSE {requests[r].data}
     IN \/ stored' = stored \cup data /\ unsure' = (unsure /\ ~requests[r].alone)
           /\ UNCHANGED <<troubles, missed>>
        \/ data # {} /\ Trouble /\ missed' = missed \cup data /\ UNCHANGED stored
  /\ UNCHANGED <<files, monitor, begun>>

-----------------------------------------------------------------------------
(* The monitor, other programs, restarts.                                   *)

\* An event of the folder: a file that is gone by then is passed over.
Watched == file # Absent
BugOnlyNew ==
  /\ changes > 0 /\ changes' = changes - 1
  /\ reads' = IF Watched /\ stored = {} THEN reads + 1 ELSE reads
  /\ UNCHANGED <<files, requests, stored, counts, missed, unsure>>
Notice ==
  /\ changes > 0 /\ changes' = changes - 1
  /\ reads' = IF Watched THEN reads + 1 ELSE reads
  /\ UNCHANGED <<files, requests, stored, counts, missed, unsure>>

\* capture_path, 180 ms after the event.
CapturePath ==
  /\ reads > 0 /\ reads' = reads - 1
  /\ LET data == {file} \ {Absent, Empty}
     IN \/ stored' = stored \cup data /\ UNCHANGED <<troubles, missed, unsure>>
        \/ data # {} /\ Trouble /\ missed' = missed \cup data /\ UNCHANGED stored
  /\ UNCHANGED <<files, requests, changes, begun>>

\* Another program replaces or removes the file.
Outside(text) ==
  /\ Trouble /\ file # text /\ Changed(text) /\ writers' = {} /\ requests' = NoneAlone
  /\ UNCHANGED <<history, meta, reads, stored, begun, missed>>

\* aeon-sync stops and starts; the monitor does not look at what is there.
RestartServer ==
  /\ Trouble
  /\ requests' = [r \in Requests |-> Rest] /\ writers' = {} /\ changes' = 0 /\ reads' = 0
  /\ missed' = missed \cup {file}
  /\ UNCHANGED <<file, history, meta, stored, begun>>

FolderNext ==
  \/ Notice \/ CapturePath \/ RestartServer \/ \E text \in Contents \cup {Absent} : Outside(text)
  \/ \E r \in Requests :
       \/ \E kind \in {"save", "upload"}, data \in Contents : Begin(r, kind, data)
       \/ Begin(r, "delete", Absent)
       \/ OpenFile(r) \/ FillFile(r) \/ Look(r) \/ RemoveFile(r)
       \/ ReadHistory(r) \/ OpenHistory(r) \/ FillHistory(r)
       \/ ReadOrigin(r) \/ OpenMeta(r) \/ FillMeta(r) \/ Finish(r)

FolderSpec == FolderInit /\ [][FolderNext]_folderVars

-----------------------------------------------------------------------------
\* When no request is under way, the last version in the history is what the
\* folder holds, unless requests overlapped, a step failed or another program
\* changed the file and no request has run alone since.
HistoryTellsFile ==
  Quiet /\ ~unsure =>
    IF history.list = <<>> THEN file = Absent /\ history.state = Absent
    ELSE IF Last(history.list).deleted THEN file = Absent ELSE file = Last(history.list).cid

\* A request that runs alone keeps every version there was, and the origin if it
\* is a save; even one that found them unreadable leaves them readable.
LoneRequestKeeps == \A r \in Requests :
  At(r, "finish") /\ requests[r].alone =>
    /\ history.state = "list" /\ IsPrefix(requests[r].was[1], history.list)
    /\ \A i \in DOMAIN history.list : history.list[i].version = i
    /\ requests[r].kind = "save" => meta = requests[r].was[2]

\* Once the monitor is at rest, what the file holds has been captured, unless
\* its capture failed or the server stopped before.
FileCaptured ==
  Quiet /\ changes = 0 /\ reads = 0 => file \in stored \cup missed \cup {Absent, Empty}

\* The history is complete and tells what the folder holds, as long as requests
\* run one at a time.
HistoryKept == HistoryTellsFile /\ LoneRequestKeeps

=============================================================================
