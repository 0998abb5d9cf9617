----------------------------- MODULE VmManifest ------------------------------
(***************************************************************************)
(* The VM state directory: daemon_state.json and one vm-N.snap per VM.     *)
(* Two processes keep it.  The aeon-vm daemon loads the manifest when it   *)
(* starts, works on its copy in memory and rewrites the file after every   *)
(* command.  aeon-sync, through aeon-capture, wraps each capture as a VM   *)
(* and pauses VMs: it reads the file, changes it and writes it back, under *)
(* a lock of its own process that the daemon does not know of.             *)
(***************************************************************************)
EXTENDS Naturals, FiniteSets

CONSTANTS
  MaxId,     \* bound: VM ids are vm-1 .. vm-MaxId
  MaxRuns,   \* bound: VMs the daemon is asked to run
  MaxWraps,  \* bound: captures that are wrapped
  MaxEdits,  \* bound: the daemon's pause, resume and migrate commands
  MaxPauses, \* bound: pauses by aeon-sync
  MaxFaults  \* bound: failed writes and stops of a process

ASSUME ManifestAssumption ==
  /\ MaxId \in Nat /\ MaxRuns \in Nat /\ MaxWraps \in Nat /\ MaxEdits \in Nat
  /\ MaxPauses \in Nat /\ MaxFaults \in Nat

VARIABLES
  manifest,  \* daemon_state.json
  snaps,     \* per id: whose state vm-N.snap holds
  up,        \* the daemon is running
  mem,       \* the daemon's copy: next_id and vms
  dpc,       \* the daemon: idle, about to write the manifest, or writing it
  dnew,      \* the VM the daemon's command will acknowledge, if any
  copy,      \* aeon-sync's copy of the manifest
  cpc,       \* aeon-sync: idle, or how far its wrap or status change is
  cnew,      \* the VM its wrap will acknowledge, if any
  runs, wraps, edits, pauses, faults,
  made,      \* history: the VMs acknowledged to a client or in a capture
  refused,   \* history: a capture failed because the manifest did not parse, and the
             \* daemon was not rewriting it
  stale,     \* history: aeon-sync has written the manifest since the daemon loaded it
  raced      \* history: a process began to change the manifest from a stale copy,
             \* or while the other one was changing it

daemonVars == <<up, mem, dpc, dnew, runs, edits>>
captureVars == <<copy, cpc, cnew, wraps, pauses, refused>>
vars == <<manifest, snaps, daemonVars, captureVars, faults, made, stale, raced>>

-----------------------------------------------------------------------------
Ids == 1..MaxId
Statuses == {"paused", "completed", "migrated"}

\* A VM is known by who made it and by how many that one had made before.
Origin == [by : {"daemon", "capture"}, nth : Nat]
Absent == [by |-> "nobody", nth |-> 0]   \* no snapshot file
Torn == [by |-> "nobody", nth |-> 1]     \* a file whose checksum fails
Loadable(id) == snaps[id] \notin {Absent, Torn}

Book(next, vms) == [next |-> next, vms |-> vms]
NoVms == [i \in {} |-> [origin |-> Absent, status |-> "paused"]]
Known(book) == DOMAIN book.vms

\* The book with VM id entered.
Enter(book, id, origin, status) ==
  [book EXCEPT !.vms = [i \in DOMAIN @ \cup {id} |->
     IF i = id THEN [origin |-> origin, status |-> status] ELSE @[i]]]

Whole(book) == [st |-> "whole", book |-> book]
TornFile == [st |-> "torn", book |-> Book(1, NoVms)]
NoFile == [st |-> "absent", book |-> Book(1, NoVms)]
Nothing == [id |-> 0, origin |-> Absent]

\* What a write of book b leaves: the file was emptied when it was opened, and
\* if the other process has written since, the longer text shows behind ours.
Fill(b) == IF manifest.st = "torn" THEN {Whole(b)} ELSE {Whole(b), TornFile}

-----------------------------------------------------------------------------
Init ==
  /\ manifest = NoFile
  /\ snaps = [i \in Ids |-> Absent]
  /\ up = FALSE /\ mem = Book(1, NoVms) /\ dpc = "idle" /\ dnew = Nothing
  /\ copy = Book(1, NoVms) /\ cpc = "idle" /\ cnew = Nothing
  /\ runs = 0 /\ wraps = 0 /\ edits = 0 /\ pauses = 0 /\ faults = 0
  /\ made = {} /\ refused = FALSE /\ stale = FALSE /\ raced = FALSE

DaemonBegins == raced' = (raced \/ stale \/ cpc # "idle") /\ UNCHANGED stale
CaptureBegins == raced' = (raced \/ dpc # "idle") /\ UNCHANGED stale

-----------------------------------------------------------------------------
(* The daemon: commands are taken one at a time under its state's mutex.    *)

BugNoReload(file) == Book(1, NoVms)  \* started from an empty state
LoadState(file) == file.book

\* recover: it does not start if the manifest or a snapshot does not load.
DaemonStart ==
  /\ ~up /\ manifest.st # "torn"
  /\ \A id \in Known(manifest.book) : Loadable(id)
  /\ up' = TRUE
  /\ mem' = LoadState(manifest)
  /\ stale' = FALSE
  /\ UNCHANGED <<manifest, snaps, dpc, dnew, runs, edits, captureVars, faults, made, raced>>

\* run_program: the snapshot file first, then the record, then the manifest.
DaemonRun ==
  LET id == mem.next
      origin == [by |-> "daemon", nth |-> runs]
  IN /\ up /\ dpc = "idle" /\ id \in Ids /\ runs < MaxRuns
     /\ runs' = runs + 1
     /\ snaps' = [snaps EXCEPT ![id] = origin]
     /\ mem' = [Enter(mem, id, origin, "paused") EXCEPT !.next = id + 1]
     /\ dnew' = [id |-> id, origin |-> origin]
     /\ dpc' = "write"
     /\ DaemonBegins
     /\ UNCHANGED <<manifest, up, edits, captureVars, faults, made>>

\* Saving the snapshot fails, and may leave a torn file: the id is spent, the VM
\* is not recorded.
DaemonRunFails ==
  LET id == mem.next IN
  /\ up /\ dpc = "idle" /\ id \in Ids /\ runs < MaxRuns /\ faults < MaxFaults
  /\ runs' = runs + 1 /\ faults' = faults + 1
  /\ snaps' \in {snaps, [snaps EXCEPT ![id] = Torn]}
  /\ mem' = [mem EXCEPT !.next = id + 1]
  /\ DaemonBegins
  /\ UNCHANGED <<manifest, up, dpc, dnew, edits, captureVars, made>>

\* pause, resume and migrate: the last two load the snapshot and save it back.
DaemonEdit(id, status) ==
  /\ up /\ dpc = "idle" /\ id \in Known(mem) /\ edits < MaxEdits
  /\ status # "paused" => Loadable(id)
  /\ edits' = edits + 1
  /\ mem' = [mem EXCEPT !.vms[id].status = status]
  /\ dnew' = Nothing
  /\ dpc' = "write"
  /\ DaemonBegins
  /\ UNCHANGED <<manifest, snaps, up, runs, captureVars, faults, made>>

\* resume and migrate fail while saving the snapshot back.
DaemonEditFails(id) ==
  /\ up /\ dpc = "idle" /\ id \in Known(mem) /\ edits < MaxEdits /\ faults < MaxFaults
  /\ Loadable(id)
  /\ edits' = edits + 1 /\ faults' = faults + 1
  /\ snaps' = [snaps EXCEPT ![id] = Torn]
  /\ DaemonBegins
  /\ UNCHANGED <<manifest, up, mem, dpc, dnew, runs, captureVars, made>>

\* fs::write of the manifest: opening empties the file ...
DaemonOpen ==
  /\ up /\ dpc = "write"
  /\ manifest' = TornFile
  /\ dpc' = "fill"
  /\ UNCHANGED <<snaps, up, mem, dnew, runs, edits, captureVars, faults, made, stale, raced>>

\* ... and the new text is written; the command is answered.
DaemonFill ==
  /\ up /\ dpc = "fill"
  /\ manifest' \in Fill(mem)
  /\ made' = IF dnew = Nothing THEN made ELSE made \cup {dnew}
  /\ dpc' = "idle" /\ dnew' = Nothing
  /\ UNCHANGED <<snaps, up, mem, runs, edits, captureVars, faults, stale, raced>>

\* The write fails, before or after the file was emptied: the copy in memory is
\* ahead of the file and the client gets an error.
DaemonSaveFails ==
  /\ up /\ dpc \in {"write", "fill"} /\ faults < MaxFaults
  /\ faults' = faults + 1
  /\ dpc' = "idle" /\ dnew' = Nothing
  /\ UNCHANGED <<manifest, snaps, up, mem, runs, edits, captureVars, made, stale, raced>>

\* The daemon stops; torn is the VM whose snapshot it was rewriting, if any.
DaemonStop(torn) ==
  /\ up /\ faults < MaxFaults
  /\ torn # {} => dpc = "idle"
  /\ faults' = faults + 1
  /\ up' = FALSE /\ dpc' = "idle" /\ dnew' = Nothing
  /\ snaps' = [i \in Ids |-> IF i \in torn THEN Torn ELSE snaps[i]]
  /\ UNCHANGED <<manifest, mem, runs, edits, captureVars, made, stale, raced>>

-----------------------------------------------------------------------------
(* aeon-sync: wraps and status changes exclude each other by manifest_lock. *)

\* reserve_vm_id: the first id from next_id on that is not taken.
FreeId(book) ==
  CHOOSE i \in book.next..(book.next + Cardinality(Known(book))) :
    /\ i \notin Known(book)
    /\ \A j \in book.next..(i - 1) : j \in Known(book)

\* A capture is wrapped: read the manifest and reserve an id ...
WrapRead ==
  LET id == FreeId(manifest.book) IN
  /\ cpc = "idle" /\ wraps < MaxWraps /\ manifest.st # "torn"
  /\ id \in Ids
  /\ wraps' = wraps + 1
  /\ copy' = [manifest.book EXCEPT !.next = id + 1]
  /\ cnew' = [id |-> id, origin |-> [by |-> "capture", nth |-> wraps]]
  /\ cpc' = "snap"
  /\ CaptureBegins
  /\ UNCHANGED <<manifest, snaps, daemonVars, pauses, refused, faults, made>>

\* ... or fail, and with it the capture, because the manifest does not parse.
WrapRefused ==
  /\ cpc = "idle" /\ wraps < MaxWraps /\ manifest.st = "torn"
  /\ wraps' = wraps + 1
  /\ refused' = (refused \/ dpc # "fill")
  /\ UNCHANGED <<manifest, snaps, daemonVars, copy, cpc, cnew, pauses, faults, made, stale, raced>>

BugRecordFirst ==  \* the manifest before the snapshot
  /\ cpc = "snap"
  /\ copy' = Enter(copy, cnew.id, cnew.origin, "paused")
  /\ cpc' = "write"
  /\ UNCHANGED <<manifest, snaps, daemonVars, cnew, wraps, pauses, refused, faults, made, stale, raced>>
\* ... write the snapshot and enter the record ...
WrapSnapshot ==
  /\ cpc = "snap"
  /\ snaps' = [snaps EXCEPT ![cnew.id] = cnew.origin]
  /\ copy' = Enter(copy, cnew.id, cnew.origin, "paused")
  /\ cpc' = "write"
  /\ UNCHANGED <<manifest, daemonVars, cnew, wraps, pauses, refused, faults, made, stale, raced>>

\* set_vm_status: read the manifest and change one record.
StatusRead(id) ==
  /\ cpc = "idle" /\ pauses < MaxPauses /\ manifest.st = "whole"
  /\ id \in Known(manifest.book)
  /\ pauses' = pauses + 1
  /\ copy' = [manifest.book EXCEPT !.vms[id].status = "paused"]
  /\ cnew' = Nothing
  /\ cpc' = "write"
  /\ CaptureBegins
  /\ UNCHANGED <<manifest, snaps, daemonVars, wraps, refused, faults, made>>

\* ... and write the manifest back.
CaptureOpen ==
  /\ cpc = "write"
  /\ manifest' = TornFile
  /\ cpc' = "fill"
  /\ stale' = TRUE
  /\ UNCHANGED <<snaps, daemonVars, copy, cnew, wraps, pauses, refused, faults, made, raced>>

CaptureFill ==
  /\ cpc = "fill"
  /\ manifest' \in Fill(copy)
  /\ made' = IF cnew = Nothing THEN made ELSE made \cup {cnew}
  /\ cpc' = "idle" /\ cnew' = Nothing
  /\ UNCHANGED <<snaps, daemonVars, copy, wraps, pauses, refused, faults, stale, raced>>

\* A write fails or aeon-sync stops: its copy is dropped, a snapshot it was
\* writing may be torn, the manifest is as it was or empty.
CaptureFails ==
  /\ cpc # "idle" /\ faults < MaxFaults
  /\ faults' = faults + 1
  /\ snaps' \in {snaps} \cup (IF cpc = "snap" THEN {[snaps EXCEPT ![cnew.id] = Torn]} ELSE {})
  /\ cpc' = "idle" /\ cnew' = Nothing
  /\ UNCHANGED <<manifest, daemonVars, copy, wraps, pauses, refused, made, stale, raced>>

-----------------------------------------------------------------------------
Daemon ==
  \/ DaemonStart \/ DaemonRun \/ DaemonRunFails \/ DaemonOpen \/ DaemonFill
  \/ DaemonSaveFails
  \/ \E id \in Ids, status \in Statuses : DaemonEdit(id, status)
  \/ \E id \in Ids : DaemonEditFails(id)
  \/ \E torn \in {{}} \cup {{id} : id \in Known(mem)} : DaemonStop(torn)

CaptureTool ==
  \/ WrapRead \/ WrapRefused \/ WrapSnapshot \/ CaptureOpen \/ CaptureFill
  \/ CaptureFails
  \/ \E id \in Ids : StatusRead(id)

Next == Daemon \/ CaptureTool

Spec == Init /\ [][Next]_vars

-----------------------------------------------------------------------------
(* Properties.                                                              *)

\* Every acknowledged VM is in the manifest, under its own id, for as long as
\* the manifest can be read.
AckedVmsListed ==
  manifest.st # "torn" =>
    \A m \in made : /\ m.id \in Known(manifest.book)
                    /\ manifest.book.vms[m.id].origin = m.origin

\* Failed writes, stops and restarts never lose an acknowledged VM nor let another
\* take over its snapshot file: it takes the daemon and aeon-sync changing the
\* manifest behind each other's back. Without that a capture is refused for an
\* unreadable manifest only after a failure, or while the daemon rewrites it.
LostOnlyByRace ==
  raced \/ /\ AckedVmsListed
           /\ \A m \in made : snaps[m.id] \in {m.origin, Torn}
           /\ refused => faults > 0

\* Whoever wrote it, the manifest never names a VM that has no snapshot file.
RecordHasSnapshot == \A id \in Known(manifest.book) : snaps[id] # Absent
=============================================================================
