# A verification project for AEON Flow

AEON Flow captures what happens on a person's devices (clipboard, files, mail,
browser, terminals), stores it by content id, shares it between the devices
through a relay, and runs small programs on a snapshot-able virtual machine
whose state several people can edit together.  It is written in Rust: the crates
`aeon-store`, `aeon-capture`, `aeon-agent`, `aeon-sync` and `aeon-vm`.

This directory holds TLA+ models of it, the TLC configurations that check them
on small instances, and TLAPS proofs.  `PROJECT.json` lists every component,
run, mutant, mapped definition, hazard and theorem.

Check a module with `tlc -config MCRelay.cfg MCRelay` and the proofs with
`tlapm RelayProofs.tla`, and likewise for `CaptureProofs`, `VmProofs`,
`FilesProofs`, `AgentSyncProofs`, `StoreProofs`, `MailProofs` and `PhoneProofs`.

## Inventory

| component | state | operations | hard behaviour | what makes it correct |
|---|---|---|---|---|
| relay node (`aeon-sync/src/relay.rs`, `RelayStore`) | one JSON file per item, named by time, content and device | push, pull above a cursor, device list, phone capture | items arrive later than their time says | every item above the cursor is returned in order, none is skipped |
| relay push and pull loops (`relay.rs`) | broadcast receiver, cursor in memory and in `relay-cursor.txt` | push every capture, poll, import, save the cursor | lag, lost pushes, imports that fail half way, restarts | no echo, every loss accounted for, restarts repeat and never skip |
| capture engine (`aeon-capture/src/engine.rs`, `store.rs`, `event_log.rs`) | blob files, memory map, index, JSONL log, subscribers | `capture`, `get`, `list`, restart | tasks interleave between the awaits; writes fail or tear | an acknowledged capture is stored, indexed and logged |
| VM state directory (`aeon-vm/src/daemon.rs`, `aeon-capture/src/apps/vm.rs`) | `daemon_state.json`, `vm-N.snap` | run, pause, resume, migrate; wrap a capture, set a status | two processes, one file, no common lock | acknowledged VMs stay listed under their own id and snapshot |
| shared context (`aeon-vm/src/session.rs`, `console.rs`, `collab_transport.rs`) | base snapshot, patches, messages, Lamport stamps | set, message, share, join, exchange | copies cross, are late, are lost | copies that know the same edits are equal, causality is kept |
| patch sets (`aeon-vm/src/editor.rs`) | changes with old and new values | apply, reverse | overlapping patches, a patch made on another state | reverse undoes apply |
| agent (`aeon-agent/src/engine.rs`, `state.rs`, `main.rs`, `watcher.rs`) | peers, nonces, seen contents, file index, tombstones, `agent_state.json` | hello, have, want, data, file events, delete | reordered messages, reconnects, restarts, removals that look like the user's | peers end with the same contents, deletions are applied and end |
| mail (`aeon-sync/src/email_sync.rs`, `email_imap.rs`) | accounts, cursors, `email-sync.json` | configure, sync, import, refresh the token | cursor saved before the captures, concurrent refreshes, dropped requests | every message is captured once, the accepted refresh token is kept |
| vault (`aeon-sync/src/vault.rs`) | sealed entries, `vault.json`, unlock sessions | add, unlock, fill, replace a token | several passwords, sessions that end, a file rewritten in place | what was added can be opened with its password |
| HTTP server (`aeon-sync/src/server/`) | shared folder with history and origin files, captures | save, upload, delete, capture, edit, list, capture processes | requests overlap without locks; processes come and go | history tells the folder's past, lists are complete, a capture is of what was chosen |
| queries, operation context (`query.rs`, `operation_context.rs`, `process.rs`) | `context.json` | answer, plan, update | a plan wrapped in prose, limits and ranges at their ends | the answer is what the filters select |
| account profiles, registry, bridge (`account_profiles.rs`, `account_registry.rs`, `bridge.rs`) | small JSON files, the latest verification code | upsert, set default, record and offer a code | a failed or torn write; messages out of order | an update that succeeded is on disk; the newest code is offered |
| capture sources (`clipboard.rs`, `os_activity.rs`, `file.rs`, `screenshot.rs`) | the signature of the last value, recent events | sample, notice, capture | a failed capture, a file still being written | every change is captured |
| store synchronisation (`aeon-store/src/sync.rs`, `store.rs`) | blob files, blobs in memory | announce, have, want, data | a session that ends early, both ends waiting | what was announced is fetched, or the session ends |
| virtual machine (`aeon-vm/src/vm.rs`, `snapshot.rs`, `cowheap.rs`, `vfs.rs`, `jit.rs`) | registers, pc, call stack, heap pages, virtual files, dirty pages | step, system calls, full and incremental snapshot, restore, compiled run | overflow, restore in mid-run, writes across pages | a saved and restored run ends as an uninterrupted one; compiled code agrees with the interpreter |
| Forth (`aeon-vm/src/forth.rs`) | dictionary and runtime in files of the machine, stack in its heap | start, step, run | every token saves and reloads frames and loops | a program means what its structure says |
| identity (`aeon-store/src/identity.rs`) | key file | load or create | a torn key file | the identity stays |
| Android app | saved endpoint, rows taken up | find the desktop, read messages, share | threads without locks, a desktop that moves, restarts | a message reaches the desktop or its loss is visible |
| browser extension | what was filled per tab, vault session | poll, fill a code, fill a credential | attempts overlap, pages load meanwhile, the worker is ended | filled once, and on the right site |

Components talk to each other in four ways.  Inside `aeon-sync` every source
calls `CaptureEngine::capture`, which broadcasts to subscribers: the relay's
push loop is one of them, and the relay's pull loop is a source again, which is
why imports must not echo.  Between devices there are HTTP requests (relay,
phone, extension) and TCP lines (agent, shared context, blob store).  Between
processes of one device there are files: the VM state directory.  Crashes matter
wherever a file is rewritten in place, which is everywhere: no file of the
program, the relay's items (`relay.rs:148`) included, is replaced by a rename.

## Modules

| module | models | what corresponds to what |
|---|---|---|
| `Relay` | relay node, push loop, pull loop, cursor file | see below |
| `RelayFeed` | what the relay promises: an ordered feed without gaps | abstract |
| `CaptureEngine` | capture pipeline with torn writes | one action per lock or await of `capture` |
| `VmManifest` | daemon and aeon-sync on the VM state directory | one action per file access |
| `SharedContext` | contexts, consoles, exchange | one action per console command or network step |
| `EditLog` | what a shared context promises: a causal log | abstract |
| `AgentSync` | connections, offers and contents between agents | one action per step of a handler or of the main loop |
| `AgentFiles` | watched files, tombstones and records of agents | one action per file event, message or restart |
| `Machine` | virtual machine, snapshots, patch sets, compiled programs | one action per instruction, command or compiled block |
| `Forth` | the interpreter in the machine | one action per call: start, steps, run |
| `Vault` | entries, sessions, fills, vault file | operations, composed by `MailSync` |
| `MailSync` | accounts, cursors, concurrent imports and token refreshes | one action per await of a handler |
| `Queries` | structured queries, today's summary, the cutting-out of a plan | operators, over captures, prose and plans that grow |
| `ProcessCapture` | the options of a process and what each of them does | one action per step of a capture |
| `Formats` | IMAP answers, dates, base32 secrets | operators, over inputs that grow |
| `CodeInbox` | the verification code the desktop offers | operations, composed by `Phone` and `CodeFill` |
| `Phone` | the app and the desktop it reports to | one action per call of a thread, one per use of the shared list |
| `CodeFill` | the extension's worker and the pages | one action per await of an attempt |
| `StoreSync` | blob stores and their exchange | one action per message |
| `JsonStores` | context, profiles, registry and identity files | open, fill, fail, restart |
| `Polls` | clipboard, window and typing monitors | one action per sample |
| `Entries` | ingest, edit and list requests over index and log | a capture is taken in, stored and logged by three actions, the last two of which may fail |
| `SharedFolder` | requests on one shared file, its history and origin, the file monitor | one action per file access |
| `ShotWatch` | the screenshot watcher and a tool that writes in parts | clock, events, tasks that may fail, stops of the service |
| `RelayProofs`, `CaptureProofs`, `VmProofs`, `FilesProofs`, `AgentSyncProofs`, `StoreProofs`, `MailProofs`, `PhoneProofs` | theorems | proofs |
| `MC*` | constants for TLC, and topics that are checked side by side | - |

`Relay`.  An item is its key: capture time, content, device, compared in that
order as `relay_id` pads them into one string.  `LocalCapture` and `PushNext` are
the broadcast channel and `spawn_push_loop`; a receiver that lags loses its
oldest entry, as tokio's does.  `StoreItem` and `PushFails` are the two ends of
a push request, which may take any time: an item stored below a cursor is
recorded in `late`.  `PullPage`, `SkipOwn`, `ImportItem` and `AdvanceCursor` are
`pull_once` and the loop around it, one action per await; `Restart` may find the
cursor file empty if it was being rewritten.  All devices share one clock: with
clocks that differ, an item can be late for a second reason, of the same kind.
The refinement maps the relay's items to the published ones, `imported` to
`delivered` and `late` to `missed`.

`CaptureEngine`.  The store and the log each have a lock, so a capture is `Put`,
`AppendEvent`, `Send`, with other tasks in between.  A file is absent, torn or
whole.  `AppendFails` stops before, inside or behind the text of a line, and a
later append continues what it finds.

`VmManifest`.  The daemon works on a copy in memory; aeon-sync reads the file
anew for each change.  Opening a file for writing empties it, so a write is an
open and a fill, and a fill that meets a file the other process has written in
between leaves a file that need not parse.  `stale` and `raced` record that a
process began to change the manifest from an outdated copy, or while the other
was changing it.

`SharedContext`.  A patch is its stamp, slot and a number that stands for its
value.  `MergeFrom` takes over the edits whose stamp is unknown and sorts: in a
list of different stamps an edit has its place by the number of edits that come
before it.  What `PatchSet::apply` makes of a list of patches is given in closed
form: the last patch of a slot remains, and nothing if one is on a slot the
snapshot does not have.  `Share` and `Join` go through a file that may be old,
`Exchange` and `ExchangeReply` are the two halves of the TCP exchange.  All
consoles open snapshots of one program; members joining and leaving a session
are not modelled.

`AgentSync`.  A connection has a queue in each direction and a handler at each
side, which reads a message (`Receive`), sends its answers one by one
(`SendTodo`) and only then reads on; a send waits for room, as a TCP buffer makes
it.  `entry` is the peers map, `link` what is really connected: `Break` lets each
side see either the end of the stream, which removes its entry, or an error,
which does not.  The nonce is the millisecond of the signature: `Millisecond`
lets a signature share it with the one before.  Each device has an identity of
its own; contents are below the limit of 10 MB.

`AgentFiles`.  `UserWrite` and `UserDelete` change a file and queue an event;
`FileCreated` and `FileDeleted` are the arms of the main loop, `Deleted` and
`FileIngest` those of `on_message`.  A removal made for a tombstone is an event
like one of the user's, so it is announced again with a later time.  Connections
are not modelled again here: messages arrive in order, or are lost when one of
the two restarts.  The clocks agree, and renames are left out.

`Machine`.  A machine is its processor and its heap; `Step` is
`VMState::step`, a function of the machine, so that an uninterrupted run can be
computed beside the one the actions make.  `Run` is one turn of the loops around
`step`.  The heap is a flat array, because nothing reads the bytes that pad its
last page, and `dirty` is the set of its written pages.  `Capture` is a full
snapshot, `SaveDelta` the end of `DaemonState::resume`, which writes the base
with the dirty pages over it, `Restore` makes a machine of the last snapshot.
`OpenEditor`, `MakePatch` and `CloseEditor` are `SnapshotEditor`, and
`ResumeEdited` is the receiver that applies the patches and goes on; the
snapshot may have been replaced since the editor was opened.  `Stages` lists what
a snapshot is after each patch of a set; the editor shows the last one.  `RunHot`,
`JitBlock` and `JitReturn` are the compiled program, one action per basic block,
whose instructions are computed one after the other (`Computed`); `jit.ran` counts
them, and `MaxSteps` bounds what a machine or a compiled function executes.  The
code generator is a library that may refuse any program (it does refuse one
that branches to its first instruction), so a hot program may stay interpreted.
`origin` is a history variable: the state from which the machine, and the last
snapshot, have run on without a change from outside.  There is one program at a
time, and its output and event log are left out.

`Forth`.  A source is a tree, whose layout decides where its definitions stand;
`StartForth` compiles its tokens, `RunSteps` loads the runtime, obeys one token and saves
it unless the token failed, `RunAgain` goes on.  `Meaning` evaluates the tree and
is the reference.

`Vault` and `MailSync`.  A key stands for the password it is derived from.
Handlers hold the lock of the vault or of the mail state for one action only; a
handler may be dropped at any await, which is what the HTTP server does when its
client goes away.  A message id is the API's prefix (`imap:`, `gmail:`,
`outlook:`) and the message (`Named`), so a message has one id for each API its
account is read through; `used` records which those are.  `live` is the refresh
token the provider accepts: a refresh mints a new one, so the second of two
refreshes with the same old token is refused.  `stale` and `tokensLost` record
that an entry was overwritten by a refresh that had read an older one, and that
a fault hit between the refresh and its store.

`Queries`, `ProcessCapture` and `Formats` answer one request at a time.  The first
walks through every list of captures and every planner text of a bounded length,
character by character where braces, quotes and backslashes matter: prose of any
characters, then an object whose strings are JSON strings (`IsJsonString`), then
prose again.  `begun` is the place of the object, and `Stray` that the prose before
it has an opening brace.  An answer is the set of the places of its captures, which tells their
order.  The second
has a process table in which processes start and exit between the steps of a
capture; `gone` marks that the chosen process exited, and the windows of a full
capture come in any order, as the system stacks them.  The third reads what a
server or another program wrote and compares it with what was meant: a calendar
that is walked day by day is the reference of `DaysFromCivil`.

`Phone` and `CodeFill`.  Threads of the app share the list of rows taken up and
the saved endpoint; a discovery asks by broadcast and then tries guessed
endpoints, among them a relay, which answers a hello and accepts shared items but
has no route for messages.  Behind each message, also one that is given up, the
list is trimmed when it is too long: read out (`List`), emptied (`Clear`) and
refilled row by row (`AddAgain`), while other threads look at it and insert; a 0 in
`takes` marks where that happened.  In the extension an attempt reads the tab and what was
filled, asks the desktop, fills and notes the fill, with page loads, other
attempts and the end of the worker in between.

`StoreSync`, `JsonStores`, `Polls`, `Entries`, `SharedFolder` and `ShotWatch` are
small models of what is kept in files and captured from them.  A write empties its
file, then fills it; what a reader makes of an unfinished file differs: the
context and the profiles start empty, the registry does so with an empty file and
refuses one that breaks off, the identity refuses both, the blob store takes it
for the blob.  In `Entries` a request dates its capture (`TakeIn`), stores it in the
index (`Store`) and appends its event to the log (`Log`), with other requests and
lists in between; `StoreFails` leaves nothing or a record in memory, `LogFails`
nothing, a part of the line, or the line without its newline, which the next event
then continues.  Restarts, which read both files again, are left to `CaptureEngine`.
In `ShotWatch` a task may fail to read the file or to capture it (`CaptureFails`),
and a stop of the service drops its events and tasks (`StopWatch`).

## Runs

| run | question | bounds and why they are enough |
|---|---|---|
| `relay` | are losses, echoes and repeats accounted for, is the feed implemented, and is every item imported in the end, or late? | a desktop that captures once and may fault once, one that only pulls, a phone with two captures, two clock values, a page of one item and a queue of one entry: one item behind a cursor, a page full of own items and a full queue all occur |
| `capture_pipeline` | what do interleaving, torn writes and restarts cost? | two tasks, two contents, three captures, two faults: a torn line, the line it swallows and one after it |
| `vm_state_directory` | what can lose a VM or its snapshot? | two runs, two wraps, an edit, a pause and one fault |
| `context` | do copies converge, and do they implement the log until one is opened again? | three consoles, so an edit can travel around the console that was closed; three edits, two concurrent and one that knows another; the third edit only among two consoles without a restart |
| `agent_sync` | does every content arrive? | two devices, one content at first and one new file, one envelope per direction in flight, one fault of each kind: with room for one envelope both handlers can wait for each other |
| `agent_files` | do index and tombstones follow the files, and do echoes end? | one path, two contents, four user actions, two tombstones kept, a restart of each device |
| `agent_newer_file` | does the newer content win? Not if it was written before the deletion was processed | three user actions |
| `machine` | is a run the same saved, restored, edited, undone and compiled, and does Forth obey the structure of its source? | five programs between them use every instruction and system call; 32 values of a word, so products and addresses wrap; a heap of three pages of two bytes, the last one short, so ranges cross pages; 20 steps let every program but the endless loop of an edit end; two saves and two patches, so a delta follows a restore and patches overlap. Forth: cells of four values and a stack of six, so arithmetic wraps and the stack overflows; trees with a loop or a condition beside any word, three definitions, one of them recursive, every layout |
| `mail` | is a message captured once, is the token kept, do credentials open? | two handlers, one account set to IMAP or Gmail, two passwords, two messages of which a fetch returns one or both, four ids of which a cursor remembers three, one fault: an account that is moved between the APIs imports its mail again and makes the seen list overflow, two refreshes race, and a password is replaced under a session |
| `requests` | does the answer hold what was asked for, is the chosen process captured, is input read as meant? | every list of three records, planner texts of ten characters, up to three of them prose before or after the object, six programs on two pids of which one may be reused, 430 days from 1970, 2000 and 2100, mails of four bytes with literals that look like their end |
| `phone` | does a message reach the desktop, is the newest code offered, is the right page filled? | two threads, two addresses, an embedded relay and another one, two messages, three threads begun, one remembered row, one fault: a thread takes a message up while another trims the list; two attempts on two tabs and two sites, one page load or restart, three fills |
| `stores` | what is kept in small files, histories and blob stores, and what do the monitors miss? | two announcers, two blobs, three announcements and two harms; two keys and four updates with two faults; four samples; three captures by two handlers with two failed writes; three requests on one file, no more than two of them overlapping, two with the monitor, whose writes of history and origin, which it does not look at, are one piece; two screenshots of up to three writes over nine half seconds, one failure or stop |

A run that checks several modules does so by topics: a constant choice at the
start says which of them moves, so that their state spaces add up instead of
multiplying.  What they share, the code inbox, moves with each.

Fairness.  `relay` assumes that each pull loop keeps taking steps: it runs on a
timer and waits for nothing but its own request, for which the code sets no time
limit, so the assumption includes that a request is answered or fails.  No
device is obliged to capture and no push to arrive.  `agent_sync` and
`agent_files` assume that the main loop, the handlers and the retry loop, which
are tasks of a runtime that never ends them, keep taking the steps they can; a
handler that waits for room is not enabled, so a mutual wait is not assumed
away.  The other runs check safety only: their requests wait for users,
providers and an operating system that owe nothing.

Deadlock is not checked, because all systems here may stop: users stop acting,
bounds are used up.  Where everyone waiting on everyone is the question, it is a
property: `EveryContentArrives` and `ExchangeEnds` name it.

What the violation shows.  `agent_newer_file`: `announce_delete` reads the clock
when the event is processed, so a file that a user wrote after the deletion and
before that moment is older than the tombstone and is removed, although
`engine.rs:238` says that newer local content wins.

Weaknesses of the code that properties name as their exceptions:

- Relay: an item that reaches the relay after a later one was polled is never
  pulled (`late` in `ItemsAccounted`, `ImportedOrLate`), because captures do not
  arrive in the order of their times; a lagging push loop and a failed push lose
  captures silently.
- VM state directory: an acknowledged VM is lost, or its snapshot overwritten,
  when daemon and aeon-sync write from copies of each other's past (`raced`); the
  lock of aeon-sync does not bind the daemon.  A manifest that does not parse, or
  names a snapshot that does not, keeps the daemon from starting; no property says
  that it starts again.
- Shared context: a console opened again starts its Lamport clock over, so two
  different edits can share a stamp and a merge keeps only one; `LogSpec` is
  stated up to that.  So can the edits of two consoles that were started without
  `--session`, which are both `user@local/console`; `LogSpec` is checked and
  proved for consoles with different sessions.  Consoles that started from
  different bases may take over a patch that does not apply; `Convergence`
  compares the snapshots of consoles on one base, and has every patch apply
  where all bases have the same slots.
- Agent: `EveryContentArrives` names the four ways a content is lost for good: two
  envelopes signed in one millisecond, a failed write after which it counts as
  seen, a connection that ended with an error and is still in the peers map, and
  both sides writing into full buffers.  After a restart the index holds the
  deleted files and not the present ones, so a deletion that follows is not
  announced; a deletion announced while a peer is away is never sent to it again.
- Mail: the cursor is saved before the captures, so a crash, a failed capture or
  a client that goes away loses messages that count as seen (`lost`); when more
  than the limit is remembered, ids are dropped by their string order, not by
  age (`forgot`), and `gmail:` is before `imap:`; an account that is set to
  another API imports its mail again under the ids of that API (`used`); a
  refresh that loses the race for the vault overwrites or is refused.
- Vault: a torn `vault.json` keeps the service from starting.
- Processes: a pid that changes hands between list and capture is captured as the
  new process; the VM option of a process names an id the manifest never has.
- Phone: a row is remembered before its message is posted, so a failed post is
  not repeated; the list is shared without a lock, and a message that is looked up
  while another thread has emptied it for a trim is sent again, or its row is
  dropped with the others; a batch goes newest first, so
  an older code can stay on offer; an endpoint found at a relay takes no messages.
- Extension: two attempts may fill twice, and a page loaded during the request
  may get the credential of the one before.
- Shared folder: overlapping requests lose versions; a torn history starts over.
- Screenshots: a file completed more than half a second after its first event, within two
  seconds of it, is captured unfinished or not at all; a read or a capture that fails
  is not tried again, and a stop of the service drops what waits (`lostShots`).
- Blob store: a torn blob is taken for whole for ever, because `CIDStore::put` and
  `has` look only whether the file exists; an announcer that lost its file answers
  nothing, and both ends wait.
- Lists: events are limited before they are filtered, so a filtered list may be
  empty although matching events exist; a record is listed before its event is, or
  for good without it when the append fails (`untold`), and an event that continues
  a line a failed append left is lost; an edit back to an earlier text makes the
  versions a circle.
- Queries: the time range of a plan is applied to what the limit left, so a full
  list of newer captures hides older ones in the range; an opening brace in the prose
  before a plan is taken for the plan's (`Stray`).
- Small files: a failed write leaves the new value in memory and the file empty.

## Proofs

`RelayProofs` proves for every set of desktops, phones and contents, every queue
capacity, page limit and bound: `TypeCorrect`, `NeverEchoes`,
`EveryPushAccounted`, `EveryPullAccounted`, `EveryItemAccounted`,
`FileNeverAhead`, `CursorNeverBack`, `OnceWithoutFault` and
`RelayImplementsFeed`.  The only assumption is `RelayAssumption`: devices and
contents are numbers, ordered as their strings are, and the bounds are positive.

Three inductive invariants carry the argument.  `PushInv` adds to `NoEcho` and
`PushAccounted` that the keys waiting in a queue are the device's own captures,
which is what a step that pushes them needs.  `PullInv` adds to `PullAccounted`
what is true in the middle of a pull: everything on the relay between the cursor
and `latest` was imported, skipped or stored late, everything of the page is
above `latest`, and nothing on the relay lies between `latest` and the end of the
page but the page itself and late items.  The heart is that a page has no gap
(`PageNoGap`): the page is a lowest part of what is above the cursor, which is
proved from cardinalities.  `OnceInv` says
that a desktop without a fault has imported nothing above the front of its pull,
so what a page holds is new.  The steps are lifted with PTL.

It also proves `CopiesConverge` and `ContextImplementsLog` of `SharedContext`, for
any consoles, sessions, base snapshots with a slot (each has registers), edits and
restarts.  `ContextInv` says that whatever a console, a file or a reply has of the
context is in the order of the stamps, that its patches were made on a slot some
base has, and that no clock is higher than the number of its edit.  The heart is
that a sorted list is the sorted list of its edits (`SortedIsUnique`), because every
place is taken by one of them, which is proved from cardinalities (`Places`); so
consoles that know the same edits have the same list.  `LogInv` says that until a
console is opened again stamps are used once, a console has all its own edits and
every copy is closed under causality.  `ContextImplementsLog` supposes that each
console has a session of its own (`OwnSessions`); `CopiesConverge` does not.

`CaptureProofs` proves for any tasks, contents and bounds `TypeCorrect`,
`LogFollowsStore`, `BroadcastFollowsLog`, `IndexNeverAhead`, `LogOnlyGrows` and
`NothingLost`, from `CaptureAssumption` (contents and tasks exist, bounds are
positive).  `TypeInv` adds that an unterminated line is a line of the log, without
which a write could not continue it.  `OrderInv` says of each task in the middle
of a capture that its blob file exists, and before the broadcast also that its
event is logged; from it the order blob, log, broadcast follows whatever the
interleaving.  `CleanInv` says the same of a behaviour without faults with "whole"
and "readable", and that the index then holds what memory holds.

It also proves `OptionsDoAsOffered` of `ProcessCapture`, for any processes, windows
and requests, from what `ProcessAssumption` says of Windows and the manifest: pid 0
is the idle process, which shows no window, and the manifest's ids are of the form
`vm-N`.  `ProcessInv` says that a process number stays with one pid (`Sits`), so that what
runs under the pid of a request is the chosen process or the chosen one has
exited, for good; that what a request has read is therefore about the chosen one
(`ReadInv`), and was read before the steps that need it; and which steps can be
left, by the kind of option (`OptionWork`) and the part of a full capture
(`AllWork`).  `Offered` and `VerbSteps` connect what the console offers with what
the service has steps for: the VM steps belong to VMs alone, the browser step to
browsers.

`VmProofs` proves `DeltaLosesNothing` for every program, heap and page size
and every edit, from `MachineSpec` alone.  The inductive invariant is `CleanPagesAgree`:
a byte on a page that is not dirty is the byte of the last snapshot.  Its step for
`Run` rests on `StepCovered`, that an instruction writes only to pages it marks,
which comes down to one fact about a range of the heap (`WriteCovered`).

`MachineTypeCorrect`, `ResumedRunsAgree`, `EditsAreUndone` and `CompiledCodeAgrees`
add to it, from `MachineAssumption` (programs are sequences of instructions, edits
have one of the editor's forms, a word counts more than the steps taken).
`MachineInv` is the conjunction of `CleanPagesAgree` with `Counters`, `Runs`,
`Editor` and `Compiled`.  The types are part of `Runs`: every machine
in it is `Sound`, which includes `FilesOk`, that an open descriptor has a file that
reaches to its cursor and that there are no more descriptors than steps, without
which a step need not give a machine again.  `RunsOn` says that the machine and
the last snapshot are where a run from their origin is after as many instructions
as they count: a step adds one, a restore takes the snapshot's place in the run, and
because a snapshot with a delta over it is the machine itself, saving changes
nothing.  `Edited` says that the patches lead from the snapshot to what is shown and
that each holds the value it found, so that undoing the last one gives the stage
before it, whatever slots the patches share.  `AtBlock` says that compiled code at the
beginning of a block has the registers of an interpreter that has taken `jit.ran`
steps and stands at that block; a block adds its instructions one by one (`BlockStages`).
The prover has no induction over numbers with operators, so it is stated with
sets: `NumberInduction` says that a set which has the first number and with each
the next has them all, from the least number of what is missing (`LeastNumber`).  A
function defined by recursion on an interval is unfolded after its existence is
proved in the same way (`RunStates`, `PatchStages`, `BlockStages`).

The same module proves `RecordsHaveSnapshots` and `LostByRaceAlone` for every
number of ids and all bounds, from `ManifestAssumption`.  `BookInv` says of all
three copies of the manifest (file, daemon, aeon-sync) that their ids lie below
their next id and have a snapshot file; no step removes one.  That is enough for
the first theorem whoever races.  `RaceInv` says of a behaviour without a race that
one process at a time changes the manifest, from a copy that lists every
acknowledged VM, and that a torn manifest is the work of a fault or of the write in
progress; a step that breaks this sets `raced`.

`CaptureProofs` has a third part, `QuestionsAreAnswered`, for any requests,
plans, captures, limits and JSON strings, from `QueryAssumption`.  The answers
follow from what `Take` leaves of a set of places (`Taken`: as many as the limit
or all of them, and none behind one it drops, by counting), and from records
that carry no time to come (`RecordsOk`), so that today is the day of the clock
(`SameDay`).  An answer that is not full misses a capture only when a plan has a
time range and more match without it than the limit lets through (`Searched`).
`Planned` says where the scan stands: before the object, in it with as many
braces open as the planner left open, or behind it with the object found; or
else the prose before the object has an opening brace, which it keeps
(`StaysStray`) and which is the theorem's one exception.  Prose behind the
object may hold anything, because the scan is over.  A string changes none of
this whatever it holds (`StringPassed`): inside it the scan is behind a
backslash exactly where the string escapes, and the quote that ends it is not
escaped.

`FilesProofs` proves `DeletionsAreKept` for every set of devices, paths and
contents, from `FilesAssumption`.  `FilesInv` says that no message, tombstone or
file carries a time to come: a file written now is therefore newer than every
deletion its device was told of, and one that is not is removed when it is told.
`TombInv` says that the list of tombstones ends like the history of what was
given to it (`EndsLike`), which adding keeps although the list is cut
(`AddKeeps`), and that it is as long as the cut promises.

The same module proves `IndexKeepsUp`.  `IndexInv` says of a device that was not
restarted what its queue tells: the last event about a path says whether there
is a file, and where no event is left the index is right about the path.  A
removal made for another device's tombstone puts its event at the end of the
queue like one of the user's, so it keeps this; a restart does not, because it
drops the queue and reads nothing back, which is why the property ends there.

`AgentSyncProofs` proves `RecordsFollowOffers` (`RecordedContentComing`) for any
devices, connections between them, contents and room on a connection, from
`AgentAssumption`.  `SyncInv` holds as long as nothing has broken: then a connection
stays up once it is made, and so `Offered` can follow a content along it.  A device
that was offered a content has it, asks for it, is sent it, or the other side is
still to be told what to offer.  `OfferKept` shows that a step which takes nothing
away keeps this; reading a message takes one away, and `ReaderOffered` and
`OtherOffered` show that what is answered or stored takes its place, because no
message offers what its sender lacks or asks for what its receiver lacks
(`MessagesAreHonest`).  Then the record: it is announced on a connection only after
the offer went there, or after the connection was made (`AnnouncedIsOffered`), is
behind the offer on its way (`IngestedIsOffered`), and so when it is kept
(`RecordedIsOffered`).

`MailProofs` proves `MailImportedOnce`, `TokensAreKept` and `EntriesStayOpen` for
any handlers, accounts, entries, messages, page and cursor limits and any order in
which a full cursor drops its ids, from `MailAssumption` and `VaultAssumption`.
One inductive invariant carries the three: `AckedInv` (an entry is as it was
acknowledged, in memory and in a file that is not torn), `SavedInv` (the two agree
until a write fails, and what a stop would lose is noted in `tokensLost`),
`TokenInv` (the live token is in the vault or in the hands of a request; a token
that was replaced is never the live one again, so a second refresh with it finds
itself refused) and `MarkInv`.  The last says of every id a cursor holds, in memory or on
disk, that its message was captured, is about to be, or was cut off by a fault,
and of a cursor that has forgotten nothing that it holds whatever was taken up:
two requests that import one account therefore never take the same message,
because each takes its page and saves the cursor under one lock.  All of this is per id: one
message has an id for each API, and the theorem says that an account has captures
under those APIs alone that it was set to or handed messages of.

Its second half proves `InputsReadAsWritten`, from `FormatAssumption`: for mails and
secrets of any length over any bytes, walks of any length from the first of January
of any year since 1970, and all times and zones.  `InputInv` types the inputs and
says that the walked day has the number `DaysFromCivil` gives it; that is inductive
because the day count of a year that starts in March (`MarchYears`, `DaysBefore`)
grows by one from each day to the next, leap years included (`NextNumber`), and
because the years before an anchor, counted one by one, give the same number
(`YearStarts`).  The rest is about one state.  The readers are recursive functions
over what they read, and a lemma gives each its steps (`DecodeStates`,
`LossyStates`, `RoundStates`, `CutStates`).  A fetch answer is read in three rounds
and stays (`AnswerRead`): what looks like a brace, a line or a tag in the literal is
never looked at.  The response is framed as the answer was, around the decoded mail
(`Framed`), and the first round of `parse_fetch_messages` cuts as many of it as were
announced; the second finds a brace only in what was cut off, and then refuses
(`MailCut`).  After n characters a secret is decoded up to bit 5n (`Reached`): the
whole bytes before it are out, and the low bits of the buffer are the begun byte's.
`FormatAssumption` says that bytes are below 256, times and zones within a day, and
that an anchor carries the number of days before its year, leap years counted.

`StoreProofs` holds the small stores.  `UpdatesAreKept`, for all keys and
values, from `JsonAssumption`: `JsonInv` says that a running process holds all
that was tried, and that the file holds it too unless it is being written or the
last write was lost; then a registry's file and document differ only when there
are no accounts (`StartUp` drops a default that names none), and the default
always fits. `SamplesAreRecorded`, for any values and signatures, from
`PollsAssumption` (no value is the mark of "nothing seen yet"): `PollInv` adds
that the signature remembered is that of a value that was seen, so a value
passed over is that one or shares its signature.  `ExchangesEnd`, for any number
of announcers and blobs, from `StoreSyncAssumption`: `ExchangeInv` says of a
call that nothing interfered with that its announcer has the blob it announced
until it sent it, that it is never silent, and that once it is over the listener
has the blob or what it took for it. No step of another call disturbs this,
because no device loses a blob (`Grows`); a crash, a cut connection or a lost
file excuses every call under way. `FilesAreCaptured`, for any contents:
`WatchInv` says that whatever is not captured or recorded as missed is announced
by a change or a read that is still to come. `HistoriesAreKept`, for any number
of requests: `FolderInv` says of a request that runs alone how far it has come
(`Done`, by stage: what it holds of the history and the origin it read, and what
it has put into the folder), and that with no request under way the history
tells what the folder holds, until a failed step or another program makes that
unsure.  `ShotsAreWhole`, for any window, delay and number of writes, from
`ShotAssumption`: `ShotInv` follows a screenshot that begins in a calm through
its three stages, its first event waiting, a task due exactly a delay later, and
the capture, unless that failed or the service stopped before it.
`VersionsLeadBack` and `ListsAreComplete`, for any texts, filters and limits,
from `EntriesAssumption` (the mark of "no version" is no text): `EntriesInv`
says that the captures of the index and those an edit is about to make have
different times, and that a version is older than what was made of it unless its
content came again.  `LogTells` says of every indexed capture that the log has
its event, that its request is about to append it, or that it is in `untold`; a
line left open keeps the event it holds until another one continues it.  A
circle of versions would have an oldest capture, whose version is older still.
A list is told by how many come before each capture (`FirstAreSo`, from
cardinalities).

`PhoneProofs` has the theorems of the phone and of the extension.
`FilledRight`, for any tabs, sites, attempts and credentials: `FilledInv` says
that the worker remembers a noted fill until it stops or notes another key for
that tab; `AskInv` is the same as an attempt saw it when it looked, which is
what is still true when it fills, however late; `MarkingInv` ties an attempt
that has filled to the fill it is about to note.  `NewestOffered`, from
`PhoneAssumption` and `InboxAssumption`: `OrderInv` says that until something
brings messages out of order only one thread has one, one only, no older than
any the desktop has recorded.  `MessagesDelivered`: `SteadyInv` says of a task
during which nothing moved or stopped that it never chose a relay while the
desktop was up and that its post is answered; `AccountInv` that every remembered
message is stored, in a thread's hands or in `lost`; `CountInv` that a message
was taken up at least as often as it was stored and is being sent; `TwiceInv`
that a message taken up is in the list with only later ones behind it, unless
threads raced for it, the app was restarted, the list was used while another
thread trimmed it, or as many others were taken up since as the list keeps.  A
trim that no one overlaps keeps the newest rows in their order, which `TwiceInv`
follows through its stages by what the thread still has to put back (`keep`).
The steps of a thread are first sorted into the few shapes these invariants tell
apart (`PhoneShape`). `PhoneSpec` lets the clock go on; the run `phone` keeps it
still while the phone moves, which no thread of the app looks at, and moves it
with the inbox and the extension.  `PhoneAssumption` says what the lists of the
app are: the limits are numbers, those the service counts down from are not
zero, a share holds items that are no messages, and threads are finitely many.

Only model-checked: liveness (outside the prover's reach), that is,
`ImportedOrLate`, `EveryContentArrives`, `EchoesEnd`;
and `ForthAgrees`, which is an induction over the trees of a program and uses
recursive operators.

## What is left

Renames in the agent's watcher, members that join and leave a shared context, and
collaboration documents are the next behaviour to model.

Not modelled and why: the assembler and the command lines (`asm.rs`, `bin/`),
which only call the components above; the way the operating system is asked for
windows, clipboards and browser histories; cryptography (a signature verifies what
was signed, a key opens what it sealed); discovery by mdns and the tunnel; context
trees, nodes and chat messages of `aeon-store`, which are immutable blobs;
collaboration documents, whose merge is a library; HTTP pages, screens and
scripts.
