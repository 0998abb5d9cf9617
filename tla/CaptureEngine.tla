---------------------------- MODULE CaptureEngine ----------------------------
(***************************************************************************)
(* The capture pipeline of aeon-capture: CaptureEngine::capture stores the *)
(* content by CID, updates the capture index, appends one event to the     *)
(* JSONL event log and broadcasts the capture.  Several tasks (clipboard,  *)
(* file watcher, bridge and HTTP handlers) capture at the same time; the   *)
(* store and the log each have a lock, held for one step of the pipeline.  *)
(*                                                                         *)
(* Files are written in place.  A write that fails, and a process that     *)
(* stops in the middle of one, leave the file as it was or torn; a stop in *)
(* the middle of a write is the failed write followed by Restart.          *)
(***************************************************************************)
EXTENDS Naturals, FiniteSets, Sequences

CONSTANTS
  Tasks,        \* the tasks that capture
  Cids,         \* contents, identified by their hash
  MaxTime,      \* bound: the wall clock stops here
  MaxCaptures,  \* bound: captures started
  MaxFaults     \* bound: failed writes and restarts

ASSUME CaptureAssumption ==
  Cids # {} /\ MaxTime \in Nat \ {0} /\ MaxCaptures \in Nat /\ MaxFaults \in Nat

VARIABLES
  now,      \* the wall clock
  started,  \* captures started so far
  pc,       \* per task: where its capture call is
  entry,    \* per task: the entry it is capturing
  files,    \* the blob file of each content: absent, torn or whole
  memory,   \* contents in the store's memory map
  records,  \* the capture index in memory
  index,    \* the index file: whether it parses, and its records
  log,      \* the lines of events.jsonl
  open,     \* the last line of the log has no newline yet
  sent,     \* history: entries broadcast to the subscribers
  acked,    \* history: entries whose capture call returned Ok
  faults    \* failed writes and restarts so far

storeVars == <<files, memory, records, index>>
logVars == <<log, open>>
vars == <<now, started, pc, entry, storeVars, logVars, sent, acked, faults>>

Entry == [cid : Cids, at : 1..MaxTime]
Line == [events : Seq(Entry), garbled : BOOLEAN]

-----------------------------------------------------------------------------
(* The index.                                                               *)

CidsOf(recs) == {r.cid : r \in recs}

\* upsert_record: one record per content, the latest capture wins.
Upsert(recs, e) == {r \in recs : r.cid # e.cid} \cup {e}

BugFresh(file) == {}  \* the index not read back
\* read_index: a file that does not parse counts as empty.
ReadIndex(file) == IF file.ok THEN file.recs ELSE {}

-----------------------------------------------------------------------------
(* The event log.                                                           *)

\* Text written at the end of the log continues an unterminated last line.
Written(lines, continued, text) ==
  IF continued
  THEN [lines EXCEPT ![Len(lines)] = [events |-> @.events \o text.events,
                                      garbled |-> @.garbled \/ text.garbled]]
  ELSE Append(lines, text)

EventText(e) == [events |-> <<e>>, garbled |-> FALSE]
PartialText == [events |-> <<>>, garbled |-> TRUE]

\* read_all keeps the lines that hold exactly one well-formed event.
Readable == {log[n].events[1] : n \in {m \in DOMAIN log :
               ~log[m].garbled /\ Len(log[m].events) = 1}}

Logged == UNION {{log[n].events[m] : m \in DOMAIN log[n].events} : n \in DOMAIN log}

-----------------------------------------------------------------------------
Init ==
  /\ now = 1 /\ started = 0 /\ faults = 0
  /\ pc = [t \in Tasks |-> "idle"]
  /\ entry = [t \in Tasks |-> CHOOSE e \in Entry : TRUE]
  /\ files = [c \in Cids |-> "absent"]
  /\ memory = {} /\ records = {}
  /\ index = [ok |-> TRUE, recs |-> {}]
  /\ log = <<>> /\ open = FALSE
  /\ sent = {} /\ acked = {}

Tick ==
  /\ now < MaxTime /\ now' = now + 1
  /\ UNCHANGED <<started, pc, entry, storeVars, logVars, sent, acked, faults>>

\* A task builds an entry, stamped with the clock, and calls capture.
Start(t, c) ==
  /\ pc[t] = "idle" /\ started < MaxCaptures
  /\ started' = started + 1
  /\ entry' = [entry EXCEPT ![t] = [cid |-> c, at |-> now]]
  /\ pc' = [pc EXCEPT ![t] = "put"]
  /\ UNCHANGED <<now, storeVars, logVars, sent, acked, faults>>

\* Wrapping the entry as a VM snapshot fails: the capture fails and leaves nothing.
WrapFails(t) ==
  /\ pc[t] = "put" /\ faults < MaxFaults
  /\ faults' = faults + 1
  /\ pc' = [pc EXCEPT ![t] = "idle"]
  /\ UNCHANGED <<now, started, entry, storeVars, logVars, sent, acked>>

\* aeon-store's CIDStore::put writes the blob only if it has no file.
FileAfterPut(c) == IF files[c] = "absent" THEN "whole" ELSE files[c]

\* CaptureStore::put, under the store's lock: blob, record, index file.
Put(t) ==
  /\ pc[t] = "put"
  /\ files' = [files EXCEPT ![entry[t].cid] = FileAfterPut(entry[t].cid)]
  /\ memory' = memory \cup {entry[t].cid}
  /\ records' = Upsert(records, entry[t])
  /\ index' = [ok |-> TRUE, recs |-> records']
  /\ pc' = [pc EXCEPT ![t] = "append"]
  /\ UNCHANGED <<now, started, entry, logVars, sent, acked, faults>>

\* Writing the blob fails: nothing, or a torn file, is left.
PutBlobFails(t, torn) ==
  LET c == entry[t].cid IN
  /\ pc[t] = "put" /\ files[c] = "absent" /\ faults < MaxFaults
  /\ faults' = faults + 1
  /\ files' = [files EXCEPT ![c] = IF torn THEN "torn" ELSE @]
  /\ pc' = [pc EXCEPT ![t] = "idle"]
  /\ UNCHANGED <<now, started, entry, memory, records, index, logVars, sent, acked>>

\* Writing the index fails after the blob and the record in memory.
PutIndexFails(t, torn) ==
  LET c == entry[t].cid IN
  /\ pc[t] = "put" /\ faults < MaxFaults
  /\ faults' = faults + 1
  /\ files' = [files EXCEPT ![c] = FileAfterPut(c)]
  /\ memory' = memory \cup {c}
  /\ records' = Upsert(records, entry[t])
  /\ index' = IF torn THEN [ok |-> FALSE, recs |-> {}] ELSE index
  /\ pc' = [pc EXCEPT ![t] = "idle"]
  /\ UNCHANGED <<now, started, entry, logVars, sent, acked>>

BugNoNewline(t) ==  \* the newline forgotten
  /\ pc[t] = "append"
  /\ log' = Written(log, open, EventText(entry[t])) /\ open' = TRUE
  /\ pc' = [pc EXCEPT ![t] = "send"]
  /\ UNCHANGED <<now, started, entry, storeVars, sent, acked, faults>>
BugBeforeStored(t) ==  \* the event logged before the entry is stored
  /\ pc[t] \in {"put", "append"}
  /\ log' = Written(log, open, EventText(entry[t])) /\ open' = FALSE
  /\ pc' = [pc EXCEPT ![t] = IF @ = "put" THEN "idle" ELSE "send"]
  /\ UNCHANGED <<now, started, entry, storeVars, sent, acked, faults>>
\* EventLog::append, under the log's lock: the line, then its newline.
AppendEvent(t) ==
  /\ pc[t] = "append"
  /\ log' = Written(log, open, EventText(entry[t])) /\ open' = FALSE
  /\ pc' = [pc EXCEPT ![t] = "send"]
  /\ UNCHANGED <<now, started, entry, storeVars, sent, acked, faults>>

\* The append fails before anything is written, inside the line, or at the newline.
AppendFails(t, text) ==
  /\ pc[t] = "append" /\ faults < MaxFaults
  /\ text \in {<<>>, <<PartialText>>, <<EventText(entry[t])>>}
  /\ faults' = faults + 1
  /\ log' = IF text = <<>> THEN log ELSE Written(log, open, text[1])
  /\ open' = (open \/ text # <<>>)
  /\ pc' = [pc EXCEPT ![t] = "idle"]
  /\ UNCHANGED <<now, started, entry, storeVars, sent, acked>>

\* The entry is broadcast and capture returns its cid.
Send(t) ==
  /\ pc[t] = "send"
  /\ sent' = sent \cup {entry[t]}
  /\ acked' = acked \cup {entry[t]}
  /\ pc' = [pc EXCEPT ![t] = "idle"]
  /\ UNCHANGED <<now, started, entry, storeVars, logVars, faults>>

\* A reader asks for content c: the store keeps what it read from disk.
Get(c) ==
  /\ c \in CidsOf(records) /\ files[c] = "whole"
  /\ memory' = memory \cup {c}
  /\ UNCHANGED <<now, started, pc, entry, files, records, index, logVars, sent, acked,
                 faults>>

\* The process stops and starts again.
Restart ==
  /\ faults < MaxFaults
  /\ faults' = faults + 1
  /\ memory' = {}
  /\ records' = ReadIndex(index)
  /\ pc' = [t \in Tasks |-> "idle"]
  /\ UNCHANGED <<now, started, entry, files, index, logVars, sent, acked>>

-----------------------------------------------------------------------------
Step(t) ==
  \/ \E c \in Cids : Start(t, c)
  \/ Put(t) \/ AppendEvent(t) \/ Send(t)

Fault(t) ==
  \/ WrapFails(t)
  \/ \E torn \in BOOLEAN : PutBlobFails(t, torn) \/ PutIndexFails(t, torn)
  \/ \E text \in {<<>>, <<PartialText>>, <<EventText(entry[t])>>} : AppendFails(t, text)

Next ==
  \/ Tick
  \/ \E t \in Tasks : Step(t) \/ Fault(t)
  \/ \E c \in Cids : Get(c)
  \/ Restart

Spec == Init /\ [][Next]_vars

-----------------------------------------------------------------------------
(* Properties.                                                              *)

TypeOK ==
  /\ now \in 1..MaxTime /\ started \in Nat /\ faults \in Nat
  /\ pc \in [Tasks -> {"idle", "put", "append", "send"}]
  /\ entry \in [Tasks -> Entry]
  /\ files \in [Cids -> {"absent", "torn", "whole"}]
  /\ memory \subseteq Cids /\ records \subseteq Entry
  /\ index.ok \in BOOLEAN /\ index.recs \subseteq Entry
  /\ log \in Seq(Line) /\ open \in BOOLEAN
  /\ sent \subseteq Entry /\ acked \subseteq Entry

\* An event is appended only after the store write: whatever the log holds, even
\* in a line that no longer parses, has a blob file.
LoggedAfterStored == \A e \in Logged : files[e.cid] # "absent"

\* Live subscribers, the relay's push loop among them, see only captures that
\* reached the timeline.
SentAfterLogged == sent \subseteq Logged

\* However the tasks interleave, a capture that returned Ok is stored, indexed
\* and in the readable timeline as long as no write failed and nothing restarted.
NothingLostWithoutFault ==
  faults = 0 =>
    \A e \in acked : /\ files[e.cid] = "whole" /\ e.cid \in CidsOf(records \cap index.recs)
                     /\ e \in Readable

\* The index file never names a content that the running process has forgotten:
\* the next write of the index, which overwrites the file with what is in
\* memory, can drop nothing.
IndexKnownInMemory == index.ok => CidsOf(index.recs) \subseteq CidsOf(records)

\* The log is append-only: no step changes a line that has its newline.
TerminatedLinesStay ==
  [][\A n \in 1..(IF open THEN Len(log) - 1 ELSE Len(log)) :
       n \in DOMAIN log' /\ log'[n] = log[n]]_vars
=============================================================================
